---- MODULE Spec2Model ----
(***************************************************************************)
(* Model of the sphere-lint analysis engine (src/main.go): the per-file    *)
(* scan lintScriptFile, the shared indices and the final resolution pass   *)
(* findUndefinedReferences.  Lines are TLA+ strings; Len, SubSeq, Head,    *)
(* Tail and \o act on them character by character.                         *)
(***************************************************************************)
EXTENDS Integers, Sequences, FiniteSets, TLC

(***************************************************************************)
(* Characters and the string helpers of the Go standard library that the   *)
(* code calls.                                                             *)
(***************************************************************************)
LowerLetters == "abcdefghijklmnopqrstuvwxyz"
UpperLetters == "ABCDEFGHIJKLMNOPQRSTUVWXYZ"
DigitChars == "0123456789"

Ch(s, i) == SubSeq(s, i, i)

CharsOf(s) == {Ch(s, i) : i \in 1..Len(s)}

LowerSet == CharsOf(LowerLetters)
UpperSet == CharsOf(UpperLetters)
DigitSet == CharsOf(DigitChars)

\* unicode.IsSpace / regexp \s restricted to the ASCII characters a line can hold
SpaceSet == {" ", "\t", "\r", "\f"}

IsSpace(c) == c \in SpaceSet

\* regexp \w
IsWordChar(c) == c \in LowerSet \/ c \in UpperSet \/ c \in DigitSet \/ c = "_"

UpperCh(c) ==
  IF c \in LowerSet
    THEN Ch(UpperLetters, CHOOSE i \in 1..26 : Ch(LowerLetters, i) = c)
    ELSE c

RECURSIVE ToUpper(_)
ToUpper(s) == IF s = "" THEN "" ELSE UpperCh(Head(s)) \o ToUpper(Tail(s))

RECURSIVE TrimLeft(_)
TrimLeft(s) == IF s # "" /\ IsSpace(Head(s)) THEN TrimLeft(Tail(s)) ELSE s

RECURSIVE TrimRight(_)
TrimRight(s) ==
  IF s # "" /\ IsSpace(Ch(s, Len(s))) THEN TrimRight(SubSeq(s, 1, Len(s) - 1)) ELSE s

TrimSpace(s) == TrimRight(TrimLeft(s))

HasPrefix(s, p) == Len(s) >= Len(p) /\ SubSeq(s, 1, Len(p)) = p

\* strings.Index: 1-based position of the first occurrence of sub, 0 when absent
IndexOf(s, sub) ==
  LET hits == {i \in 1..(Len(s) - Len(sub) + 1) : SubSeq(s, i, i + Len(sub) - 1) = sub}
  IN IF hits = {} THEN 0 ELSE CHOOSE i \in hits : \A j \in hits : i <= j

Contains(s, sub) == IndexOf(s, sub) # 0

\* strings.Fields: the maximal runs of non-space characters, in order
RECURSIVE FieldsFrom(_, _, _)
FieldsFrom(s, i, cur) ==
  IF i > Len(s)
    THEN IF cur = "" THEN <<>> ELSE <<cur>>
    ELSE IF IsSpace(Ch(s, i))
      THEN IF cur = "" THEN FieldsFrom(s, i + 1, "")
                       ELSE <<cur>> \o FieldsFrom(s, i + 1, "")
      ELSE FieldsFrom(s, i + 1, cur \o Ch(s, i))

Fields(s) == FieldsFrom(s, 1, "")

cleanLine(line) ==
  LET idx == IndexOf(line, "//")
  IN TrimSpace(IF idx > 0 THEN SubSeq(line, 1, idx - 1) ELSE line)

firstToken(line) ==
  LET fields == Fields(line) IN IF Len(fields) = 0 THEN "" ELSE fields[1]

\* mutant: the spellings ENDO and ENDOR are not closing keywords
normalizeEndToken_NoTypos(token) ==
  IF token \in {"ENDIF", "ENDWHILE", "ENDFOR", "ENDDO", "END"} THEN token ELSE ""

normalizeEndToken(token) ==
  IF token \in {"ENDIF", "ENDWHILE", "ENDFOR", "ENDDO", "END"} THEN token
  ELSE IF token \in {"ENDO", "ENDOR"} THEN "ENDDO"
  ELSE ""

hasPrefixFold(s, prefix) ==
  Len(s) >= Len(prefix) /\ ToUpper(SubSeq(s, 1, Len(prefix))) = ToUpper(prefix)

(***************************************************************************)
(* Tables of src/main.go.                                                  *)
(***************************************************************************)
trackDefTypes ==
  {"ITEMDEF", "CHARDEF", "EVENTS", "FUNCTION", "REGIONTYPE", "AREADEF", "DIALOG",
   "MENU", "ROOMDEF", "SKILL", "SKILLCLASS", "SKILLMENU", "SPAWN", "SPELL",
   "TYPEDEF", "TEMPLATE"}

textKeywords ==
  {"SAY", "SYSMESSAGE", "MESSAGE", "EMOTE", "SAYU", "SAYUA", "TITLE", "NAME",
   "DESC", "PROMPTCONSOLE", "BARK", "GROUP", "EVENTS", "FLAGS", "RECT", "P",
   "AUTHOR", "PAGES"}

\* each pattern: the prefix of the regexp \b<prefix>[a-z0-9_]+\b and its types
refPatterns ==
  << [prefix |-> "I_", defTypes |-> <<"ITEMDEF">>],
     [prefix |-> "C_", defTypes |-> <<"CHARDEF">>],
     [prefix |-> "SPAWN_", defTypes |-> <<"SPAWN">>],
     [prefix |-> "T_", defTypes |-> <<"TYPEDEF">>],
     [prefix |-> "S_", defTypes |-> <<"SPELL">>],
     [prefix |-> "R_", defTypes |-> <<"REGIONTYPE", "AREADEF">>],
     [prefix |-> "E_", defTypes |-> <<"EVENTS">>],
     [prefix |-> "M_", defTypes |-> <<"MENU">>],
     [prefix |-> "D_", defTypes |-> <<"DIALOG">>],
     [prefix |-> "F_", defTypes |-> <<"FUNCTION">>] >>

\* mutant: every closer is matched against a round opener
bracketPairs_RoundOnly == (")" :> "(") @@ ("]" :> "(") @@ ("}" :> "(") @@ (">" :> "<")

bracketPairs == (")" :> "(") @@ ("]" :> "[") @@ ("}" :> "{") @@ (">" :> "<")

missingArgMessages ==
  ("WHILE" :> "LOGIC: WHILE missing condition") @@
  ("FOR" :> "LOGIC: FOR missing expression") @@
  ("DORAND" :> "LOGIC: DORAND missing line count") @@
  ("DOSWITCH" :> "LOGIC: DOSWITCH missing line number")

\* mutant: only two of the FOR variants need an argument
forArgTokens_Few == {"FORCHARS", "FORITEMS"}

forArgTokens ==
  {"FORCHARS", "FORITEMS", "FOROBJS", "FORCONT", "FORCONTID", "FORCONTTYPE",
   "FORINSTANCES", "FORCHARLAYER", "FORCHARMEMORYTYPE"}

ForKeywords ==
  {"FOR", "FORCHARS", "FORCHARMEMORYTYPE", "FORCONTTYPE", "FORCHARLAYER",
   "FORCLIENTS", "FORITEMS", "FOROBJS", "FORCONT", "FORCONTID", "FORPLAYERS",
   "FORINSTANCES"}

blockStartToEnd ==
  [k \in {"IF", "WHILE", "DORAND", "DOSWITCH", "DOSELECT", "BEGIN"} \cup ForKeywords |->
     CASE k = "IF" -> "ENDIF"
       [] k = "WHILE" -> "ENDWHILE"
       [] k \in ForKeywords -> "ENDFOR"
       [] k \in {"DORAND", "DOSWITCH", "DOSELECT"} -> "ENDDO"
       [] k = "BEGIN" -> "END"]

(***************************************************************************)
(* The three header patterns, matched as the regexp engine matches them.   *)
(***************************************************************************)
\* last index of the maximal run of \w characters starting at i (i-1: no run)
RECURSIVE WordRunEnd(_, _)
WordRunEnd(s, i) ==
  IF i <= Len(s) /\ IsWordChar(Ch(s, i)) THEN WordRunEnd(s, i + 1) ELSE i - 1

\* (?i)^\[COMMENT(?:\s+[^\]]+)?\]
commentHeaderPattern(s) ==
  /\ hasPrefixFold(s, "[COMMENT")
  /\ LET rest == SubSeq(s, 9, Len(s))
         k == IndexOf(rest, "]")
     IN k = 1 \/ (k >= 3 /\ IsSpace(Ch(rest, 1)))

\* ^\[(\w+)\s+([^\]]+)\] : <<>> when there is no match, else the two groups
defHeaderPattern(s) ==
  IF s = "" \/ Head(s) # "["
    THEN <<>>
    ELSE LET e == WordRunEnd(s, 2)
             rest == SubSeq(s, e + 1, Len(s))
             k == IndexOf(rest, "]")
             seg == SubSeq(rest, 1, k - 1)
             lead == Len(seg) - Len(TrimLeft(seg))
             \* \s+ is greedy but leaves one character to [^\]]+
             args == IF lead = Len(seg) THEN SubSeq(seg, Len(seg), Len(seg))
                                        ELSE SubSeq(seg, lead + 1, Len(seg))
         IN IF e >= 2 /\ k >= 3 /\ IsSpace(Ch(rest, 1))
              THEN <<SubSeq(s, 2, e), args>>
              ELSE <<>>

\* (?i)^\s*ON\s*=\s*@?.+
triggerPattern(s) ==
  LET s1 == TrimLeft(s)
      s2 == TrimLeft(SubSeq(s1, 3, Len(s1)))
  IN /\ hasPrefixFold(s1, "ON")
     /\ HasPrefix(s2, "=")
     /\ Len(s2) >= 2

\* (?i)^\s*<KEY>\s*=\s*(.*)$ : <<>> when there is no match, else <<group 1>>
AssignPattern(key, s) ==
  LET s1 == TrimLeft(s)
      s2 == TrimLeft(SubSeq(s1, Len(key) + 1, Len(s1)))
  IN IF hasPrefixFold(s1, key) /\ HasPrefix(s2, "=")
       THEN <<TrimLeft(Tail(s2))>>
       ELSE <<>>

itemAssignPattern(s) == AssignPattern("ITEM", s)

containerAssignPattern(s) == AssignPattern("CONTAINER", s)

\* the maximal runs of \w characters of s, as <<first, last>> index pairs
RECURSIVE WordRunsFrom(_, _)
WordRunsFrom(s, i) ==
  IF i > Len(s) THEN <<>>
  ELSE IF IsWordChar(Ch(s, i))
    THEN LET e == WordRunEnd(s, i) IN <<<<i, e>>>> \o WordRunsFrom(s, e + 1)
    ELSE WordRunsFrom(s, i + 1)

WordRuns(s) == WordRunsFrom(s, 1)

\* (?i)\b[a-z_][a-z0-9_]*\b, FindAllString
templateIdentPattern(value) ==
  LET runs == SelectSeq(WordRuns(value), LAMBDA r : Ch(value, r[1]) \notin DigitSet)
  IN [n \in 1..Len(runs) |-> SubSeq(value, runs[n][1], runs[n][2])]

(***************************************************************************)
(* Bracket / angle-expression validator.  Indices are 1-based: index i     *)
(* here is index i-1 of the Go code.                                       *)
(***************************************************************************)
isAngleTokenStart(b) == b \in UpperSet \/ b \in LowerSet \/ b = "_"

isAngleTokenChar(b) == isAngleTokenStart(b) \/ b \in DigitSet \/ b = "."

\* mutant: no angle expression is an evaluation expression
isAngleEvalStart_Never(line, start) == FALSE

isAngleEvalStart(line, start) ==
  IF start + 3 > Len(line) THEN FALSE
  ELSE IF ToUpper(SubSeq(line, start, start + 3)) # "EVAL" THEN FALSE
  ELSE IF start + 3 >= Len(line) THEN TRUE
  ELSE Ch(line, start + 4) \in {" ", "(", "\t"}

RECURSIVE SkipBlanks(_, _)
SkipBlanks(line, i) ==
  IF i <= Len(line) /\ Ch(line, i) \in {" ", "\t"} THEN SkipBlanks(line, i + 1) ELSE i

isAngleCloseCandidate(line, index, parenDepth) ==
  IF parenDepth > 0 THEN FALSE
  ELSE IF index + 1 <= Len(line) /\ Ch(line, index + 1) = "=" THEN FALSE
  ELSE LET j == SkipBlanks(line, index + 1)
       IN j > Len(line) \/ Ch(line, j) \in {")", "]", "}", ",", ";"}

\* one iteration of the loop of scanAngleExpression, at index i; st holds
\* depth, parenDepth and, once the loop has returned, done and the index end
scanAngleStep(line, isEval, st, i) ==
  IF st.done THEN st
  ELSE LET c == Ch(line, i) IN
    IF c = "<"
      THEN IF i + 1 <= Len(line) /\ isAngleTokenStart(Ch(line, i + 1))
             THEN [st EXCEPT !.depth = @ + 1]
             ELSE st
    ELSE IF c = ">"
      THEN IF st.depth > 1 THEN [st EXCEPT !.depth = @ - 1]
           ELSE IF ~isEval \/ isAngleCloseCandidate(line, i, st.parenDepth)
             THEN [st EXCEPT !.done = TRUE, !.end = i]
           ELSE st
    ELSE IF isEval /\ c = "(" THEN [st EXCEPT !.parenDepth = @ + 1]
    ELSE IF isEval /\ c = ")" /\ st.parenDepth > 0 THEN [st EXCEPT !.parenDepth = @ - 1]
    ELSE st

\* the loop of scanAngleExpression over the indices lo..hi, in order
RECURSIVE scanAngleLoop(_, _, _, _, _)
scanAngleLoop(line, isEval, st, lo, hi) ==
  IF lo > hi THEN st
  ELSE IF lo = hi THEN scanAngleStep(line, isEval, st, lo)
  ELSE LET mid == (lo + hi) \div 2
           left == scanAngleLoop(line, isEval, st, lo, mid)
       IN IF left.done THEN left ELSE scanAngleLoop(line, isEval, left, mid + 1, hi)

\* mutant: every angle expression is scanned in evaluation mode
scanAngleExpression_AlwaysEval(line, start) ==
  LET st == scanAngleLoop(line, TRUE,
                          [depth |-> 1, parenDepth |-> 0, done |-> FALSE, end |-> 0],
                          start, Len(line))
  IN IF st.done THEN [end |-> st.end, ok |-> TRUE]
     ELSE [end |-> IF Len(line) < 1 THEN 1 ELSE Len(line), ok |-> TRUE]

\* mutant: an evaluation expression that runs to the end of the line ends at
\* the first index of the line
scanAngleExpression_EndAtZero(line, start) ==
  LET isEval == isAngleEvalStart(line, start)
      st == scanAngleLoop(line, isEval,
                          [depth |-> 1, parenDepth |-> 0, done |-> FALSE, end |-> 0],
                          start, Len(line))
  IN IF st.done THEN [end |-> st.end, ok |-> TRUE]
     ELSE IF isEval THEN [end |-> 1, ok |-> TRUE]
     ELSE [end |-> Len(line) + 1, ok |-> FALSE]

\* result [end, ok]
scanAngleExpression(line, start) ==
  LET isEval == isAngleEvalStart(line, start)
      st == scanAngleLoop(line, isEval,
                          [depth |-> 1, parenDepth |-> 0, done |-> FALSE, end |-> 0],
                          start, Len(line))
  IN IF st.done THEN [end |-> st.end, ok |-> TRUE]
     ELSE IF isEval THEN [end |-> IF Len(line) < 1 THEN 1 ELSE Len(line), ok |-> TRUE]
     ELSE [end |-> Len(line) + 1, ok |-> FALSE]

RECURSIVE JoinStrings(_, _)
JoinStrings(parts, sep) ==
  IF Len(parts) = 0 THEN ""
  ELSE IF Len(parts) = 1 THEN parts[1]
  ELSE parts[1] \o sep \o JoinStrings(Tail(parts), sep)

\* one iteration of the loop of checkBrackets, at index i; st holds the stack
\* of open brackets, the result once the loop has returned (err), and the last
\* index an angle expression consumed (skip)
checkBracketsStep(line, st, i) ==
  IF st.err # "" \/ i <= st.skip THEN st
  ELSE LET ch == Ch(line, i)
           n == Len(st.stack)
       IN
    IF ch \in {"(", "[", "{"} THEN [st EXCEPT !.stack = Append(@, ch)]
    ELSE IF ch = "<"
      THEN IF i + 1 <= Len(line) /\ isAngleTokenStart(Ch(line, i + 1))
             THEN LET r == scanAngleExpression(line, i + 1)
                  IN IF ~r.ok THEN [st EXCEPT !.err = "unclosed '<'"]
                     ELSE [st EXCEPT !.skip = r.end]
             ELSE st
    ELSE IF ch \in {")", "]", "}"}
      THEN IF n = 0 THEN [st EXCEPT !.err = "unexpected closing '" \o ch \o "'"]
           ELSE IF st.stack[n] # bracketPairs[ch]
             THEN [st EXCEPT !.err = "expected closing '" \o st.stack[n]
                                       \o "' but found '" \o ch \o "'"]
           ELSE [st EXCEPT !.stack = SubSeq(@, 1, n - 1)]
    ELSE st

\* the loop of checkBrackets over the indices lo..hi, in order
RECURSIVE checkBracketsLoop(_, _, _, _)
checkBracketsLoop(line, st, lo, hi) ==
  IF lo > hi THEN st
  ELSE IF lo = hi THEN checkBracketsStep(line, st, lo)
  ELSE LET mid == (lo + hi) \div 2
           left == checkBracketsLoop(line, st, lo, mid)
       IN IF left.err # "" THEN left ELSE checkBracketsLoop(line, left, mid + 1, hi)

checkBrackets(line) ==
  LET st == checkBracketsLoop(line, [stack |-> <<>>, err |-> "", skip |-> 0], 1, Len(line))
  IN IF st.err # "" THEN st.err
     ELSE IF Len(st.stack) > 0 THEN "unclosed: " \o JoinStrings(st.stack, ", ")
     ELSE ""

(***************************************************************************)
(* Small helpers of the scan.                                              *)
(***************************************************************************)
\* countFields(line, 2): the number of fields, counted up to max
countFields(line, max) ==
  LET n == Len(Fields(line)) IN IF max > 0 /\ n >= max THEN max ELSE n

RECURSIVE LastIndexOf(_, _, _)
LastIndexOf(s, c, i) ==
  IF i = 0 THEN 0 ELSE IF Ch(s, i) = c THEN i ELSE LastIndexOf(s, c, i - 1)

isTextKeyword(token) ==
  IF token = "" THEN FALSE
  ELSE LET lastDot == LastIndexOf(token, ".", Len(token))
           tok == IF lastDot >= 1 /\ lastDot < Len(token)
                    THEN SubSeq(token, lastDot + 1, Len(token)) ELSE token
       IN ToUpper(tok) \in textKeywords

\* mutant: only the RESDEFNAME header form is an alias table
isAliasSection_OnlyResdefname(section) == section = "RESDEFNAME"

isAliasSection(section) == section = "RESDEFNAME" \/ section = "RES_RESDEFNAME"

\* mutant: only a [DEFNAME ...] section registers the first token of its lines
isDefnameSection_OnlyDefname(section) == section = "DEFNAME"

isDefnameSection(section) == section = "DEFNAME" \/ isAliasSection(section)

\* mutant: no line is a DEFNAME= line
parseDefnameAssignment_Never(line) == ""

parseDefnameAssignment(line) ==
  IF ~hasPrefixFold(line, "DEFNAME=") THEN ""
  ELSE LET value == TrimSpace(SubSeq(line, 9, Len(line)))
           fields == Fields(value)
       IN IF value = "" \/ Len(fields) = 0 THEN "" ELSE fields[1]

Loc(file, line) == [file |-> file, line |-> line]

\* recordDefName / recordIdentifier: first registration wins
recordDefName(defnameIndex, name, file, lineNum) ==
  LET upper == ToUpper(name)
  IN IF upper = "" \/ upper \in DOMAIN defnameIndex THEN defnameIndex
     ELSE defnameIndex @@ (upper :> Loc(file, lineNum))

\* mutant: a later registration replaces the location of the name
recordIdentifier_Overwrite(idIndex, name, file, lineNum) ==
  LET upper == ToUpper(name)
  IN IF upper = "" THEN idIndex
     ELSE [k \in DOMAIN idIndex \cup {upper} |->
             IF k = upper THEN Loc(file, lineNum) ELSE idIndex[k]]

recordIdentifier(idIndex, name, file, lineNum) ==
  LET upper == ToUpper(name)
  IN IF upper = "" \/ upper \in DOMAIN idIndex THEN idIndex
     ELSE idIndex @@ (upper :> Loc(file, lineNum))

Issue(file, line, kind, msg) == [file |-> file, line |-> line, kind |-> kind, msg |-> msg]

appendError(errors, rel, lineNum, kind, msg) == Append(errors, Issue(rel, lineNum, kind, msg))

\* mutant: every frame is reported at the current line, also at end of file
appendUnclosedStackErrors_AtCurrentLine(errors, stack, rel, lineNum, msgSuffix, useBlockLine) ==
  errors \o
  [n \in 1..Len(stack) |->
     Issue(rel, lineNum, "BLOCK",
           "BLOCK: unclosed '" \o stack[n].typ \o "' block" \o msgSuffix)]

\* mutant: every frame is reported at its opening line, also at a header or trigger
appendUnclosedStackErrors_AtBlockLine(errors, stack, rel, lineNum, msgSuffix, useBlockLine) ==
  errors \o
  [n \in 1..Len(stack) |->
     Issue(rel, stack[n].line, "BLOCK",
           "BLOCK: unclosed '" \o stack[n].typ \o "' block" \o msgSuffix)]

appendUnclosedStackErrors(errors, stack, rel, lineNum, msgSuffix, useBlockLine) ==
  errors \o
  [n \in 1..Len(stack) |->
     Issue(rel, IF useBlockLine THEN stack[n].line ELSE lineNum, "BLOCK",
           "BLOCK: unclosed '" \o stack[n].typ \o "' block" \o msgSuffix)]

(***************************************************************************)
(* Template selector validation (TEMPLATE sections).                       *)
(***************************************************************************)
\* mutant: padding inside a range selector goes unnoticed
isTemplateSpace_Never(b) == FALSE

isTemplateSpace(b) == b = " " \/ b = "\t"

isAllDigits(value) == value # "" /\ \A i \in 1..Len(value) : Ch(value, i) \in DigitSet

\* mutant: only an upper-case R starts an R selector
isRSelectorCandidate_UpperOnly(token) ==
  /\ Len(token) >= 2
  /\ Ch(token, 1) = "R"
  /\ Ch(token, 2) \in DigitSet

isRSelectorCandidate(token) ==
  /\ Len(token) >= 2
  /\ Ch(token, 1) \in {"R", "r"}
  /\ Ch(token, 2) \in DigitSet

\* mutant: no token is set aside as a selector
isTemplateSelectorToken_Never(token) == FALSE

isTemplateSelectorToken(token) ==
  LET upper == ToUpper(token)
  IN IF upper = "ITEM" \/ upper = "CONTAINER" THEN TRUE
     ELSE IF Len(upper) > 1 /\ Ch(upper, 1) = "R"
       THEN \A i \in 2..Len(upper) : Ch(upper, i) \in DigitSet
       ELSE FALSE

\* the loop of validateTemplateRanges from index i on, with the stack of '{' indices
RECURSIVE validateTemplateRangesLoop(_, _, _)
validateTemplateRangesLoop(value, i, stack) ==
  IF i > Len(value) THEN <<>>
  ELSE IF Ch(value, i) = "{"
    THEN validateTemplateRangesLoop(value, i + 1, Append(stack, i))
  ELSE IF Ch(value, i) = "}" /\ Len(stack) > 0
    THEN LET start == stack[Len(stack)]
             parts == Fields(SubSeq(value, start + 1, i - 1))
             errs ==
               IF start + 1 >= i \/ Len(parts) = 0 THEN <<>>
               ELSE IF \E n \in 1..Len(parts) : ~isAllDigits(parts[n]) THEN <<>>
               ELSE IF Len(parts) # 2 THEN <<"SYNTAX: template range selector">>
               ELSE IF isTemplateSpace(Ch(value, start + 1)) \/ isTemplateSpace(Ch(value, i - 1))
                 THEN <<"SYNTAX: template range selector">>
               ELSE <<>>
         IN errs \o validateTemplateRangesLoop(value, i + 1, SubSeq(stack, 1, Len(stack) - 1))
  ELSE validateTemplateRangesLoop(value, i + 1, stack)

validateTemplateRanges(value) == validateTemplateRangesLoop(value, 1, <<>>)

validateTemplateRSelectors(value) ==
  LET bad == SelectSeq(templateIdentPattern(value),
                       LAMBDA tok : isRSelectorCandidate(tok) /\ ~isAllDigits(Tail(tok)))
  IN [n \in 1..Len(bad) |-> "SYNTAX: template R selector"]

appendTemplateSelectorIssues(issues, file, lineNum, value) ==
  LET msgs == validateTemplateRanges(value) \o validateTemplateRSelectors(value)
  IN issues \o [n \in 1..Len(msgs) |-> Issue(file, lineNum, "SYNTAX", msgs[n])]

validateTemplateLine(line, file, lineNum) ==
  LET im == itemAssignPattern(line)
      cm == containerAssignPattern(line)
  IN IF im # <<>>
       THEN IF TrimSpace(im[1]) = ""
              THEN <<Issue(file, lineNum, "LOGIC", "LOGIC: ITEM missing value")>>
              ELSE appendTemplateSelectorIssues(<<>>, file, lineNum, TrimSpace(im[1]))
     ELSE IF cm # <<>>
       THEN IF TrimSpace(cm[1]) = ""
              THEN <<Issue(file, lineNum, "LOGIC", "LOGIC: CONTAINER missing value")>>
              ELSE appendTemplateSelectorIssues(<<>>, file, lineNum, TrimSpace(cm[1]))
     ELSE <<>>

extractTemplateIdentifiers(value) ==
  IF value = "" THEN <<>>
  ELSE SelectSeq(templateIdentPattern(value), LAMBDA ident : ~isTemplateSelectorToken(ident))

(***************************************************************************)
(* Reference collection and resolution.                                    *)
(***************************************************************************)
Ref(file, line, defTypes, id) ==
  [file |-> file, line |-> line, defTypes |-> defTypes, id |-> id]

collectTemplateReferences(line, file, lineNum, references) ==
  LET im == itemAssignPattern(line)
      cm == containerAssignPattern(line)
      refsOf(value, types) ==
        LET idents == extractTemplateIdentifiers(value)
        IN [n \in 1..Len(idents) |-> Ref(file, lineNum, types, ToUpper(idents[n]))]
  IN IF im # <<>> THEN references \o refsOf(im[1], <<"ITEMDEF", "TEMPLATE">>)
     ELSE IF cm # <<>> THEN references \o refsOf(cm[1], <<"ITEMDEF">>)
     ELSE references

shouldSkipDynamicID(line, end, match) ==
  IF end > Len(line) \/ Ch(line, end) # "<" THEN FALSE
  ELSE IF Len(match) = 0 \/ Ch(match, Len(match)) # "_" THEN FALSE
  ELSE TRUE

\* FindAllStringIndex of (?i)\b<prefix>[a-z0-9_]+\b: the word runs that start
\* with the prefix and go on for at least one more character
PatternMatches(line, prefix) ==
  SelectSeq(WordRuns(line),
            LAMBDA r : /\ r[2] - r[1] + 1 > Len(prefix)
                       /\ ToUpper(SubSeq(line, r[1], r[1] + Len(prefix) - 1)) = prefix)

collectReferenceUses(line, file, lineNum, references) ==
  LET usesOf(pattern) ==
        LET kept == SelectSeq(PatternMatches(line, pattern.prefix),
                              LAMBDA r : ~shouldSkipDynamicID(line, r[2] + 1,
                                                              SubSeq(line, r[1], r[2])))
        IN [n \in 1..Len(kept) |->
              Ref(file, lineNum, pattern.defTypes,
                  ToUpper(SubSeq(line, kept[n][1], kept[n][2])))]
      RECURSIVE allFrom(_)
      allFrom(n) == IF n > Len(refPatterns) THEN <<>>
                    ELSE usesOf(refPatterns[n]) \o allFrom(n + 1)
  IN references \o allFrom(1)

\* mutant: the global identifier table is not consulted
RefResolved_NoIdIndex(ref, defIndex, defnameIndex, idIndex) ==
  \/ ref.id \in DOMAIN defnameIndex
  \/ \E n \in 1..Len(ref.defTypes) : (ref.defTypes[n] \o " " \o ref.id) \in DOMAIN defIndex

RefResolved(ref, defIndex, defnameIndex, idIndex) ==
  \/ ref.id \in DOMAIN defnameIndex
  \/ ref.id \in DOMAIN idIndex
  \/ \E n \in 1..Len(ref.defTypes) : (ref.defTypes[n] \o " " \o ref.id) \in DOMAIN defIndex

\* mutant: the deduplication key leaves out the file
errKeyOf_NoFile(ref) ==
  ToString(ref.line) \o ":" \o ref.id \o ":" \o JoinStrings(ref.defTypes, "/")

\* mutant: the deduplication key leaves out the type label
errKeyOf_NoLabel(ref) ==
  ref.file \o ":" \o ToString(ref.line) \o ":" \o ref.id

errKeyOf(ref) ==
  ref.file \o ":" \o ToString(ref.line) \o ":" \o ref.id \o ":" \o JoinStrings(ref.defTypes, "/")

\* mutant: every unresolved reference is reported, seen before or not
RECURSIVE findUndefinedLoop_NoDedup(_, _, _, _, _, _)
findUndefinedLoop_NoDedup(references, n, seen, defIndex, defnameIndex, idIndex) ==
  IF n > Len(references) THEN <<>>
  ELSE LET ref == references[n]
       IN IF RefResolved(ref, defIndex, defnameIndex, idIndex)
            THEN findUndefinedLoop_NoDedup(references, n + 1, seen, defIndex, defnameIndex, idIndex)
            ELSE <<Issue(ref.file, ref.line, "UNDECLARED",
                         "UNDECLARED: '" \o ref.id \o "' not defined as "
                           \o JoinStrings(ref.defTypes, "/"))>>
                 \o findUndefinedLoop_NoDedup(references, n + 1, seen,
                                              defIndex, defnameIndex, idIndex)

\* the loop of findUndefinedReferences from reference n on, with the seen set
RECURSIVE findUndefinedLoop(_, _, _, _, _, _)
findUndefinedLoop(references, n, seen, defIndex, defnameIndex, idIndex) ==
  IF n > Len(references) THEN <<>>
  ELSE LET ref == references[n]
       IN IF RefResolved(ref, defIndex, defnameIndex, idIndex) \/ errKeyOf(ref) \in seen
            THEN findUndefinedLoop(references, n + 1, seen, defIndex, defnameIndex, idIndex)
            ELSE <<Issue(ref.file, ref.line, "UNDECLARED",
                         "UNDECLARED: '" \o ref.id \o "' not defined as "
                           \o JoinStrings(ref.defTypes, "/"))>>
                 \o findUndefinedLoop(references, n + 1, seen \cup {errKeyOf(ref)},
                                      defIndex, defnameIndex, idIndex)

findUndefinedReferences(references, defIndex, defnameIndex, idIndex) ==
  findUndefinedLoop(references, 1, {}, defIndex, defnameIndex, idIndex)

(***************************************************************************)
(* lintScriptFile.  A scan state s holds the three shared indices and the  *)
(* shared reference list together with the locals of the scan; pushed and  *)
(* popped are history counters of the frames pushed on and popped off the  *)
(* stack during the scan.                                                  *)
(***************************************************************************)
Shared(defIndex, defnameIndex, idIndex, references) ==
  [defIndex |-> defIndex, defnameIndex |-> defnameIndex, idIndex |-> idIndex,
   references |-> references]

EmptyMap == [k \in {} |-> Loc("", 0)]

\* the locals of lintScriptFile as declared before its loop
StartScan(sh) ==
  [defIndex |-> sh.defIndex, defnameIndex |-> sh.defnameIndex, idIndex |-> sh.idIndex,
   references |-> sh.references,
   issues |-> <<>>, stack |-> <<>>, inTextBlock |-> FALSE, currentSection |-> "",
   lineNum |-> 0, lastNonEmpty |-> "", pushed |-> 0, popped |-> 0]

\* a [COMMENT ...] header line
\* mutant: a [COMMENT ...] header does not enter free-text mode
OnCommentHeader_NoTextMode(s, rel) ==
  [s EXCEPT !.issues = appendUnclosedStackErrors(@, s.stack, rel, s.lineNum,
                                                 " before new section.", FALSE),
            !.stack = <<>>]

OnCommentHeader(s, rel) ==
  [s EXCEPT !.issues = appendUnclosedStackErrors(@, s.stack, rel, s.lineNum,
                                                 " before new section.", FALSE),
            !.inTextBlock = TRUE,
            !.stack = <<>>]

\* mutant: the id is not uppercased in the key
HeaderKey_CaseSensitive(defType, fields) ==
  LET key == defType \o " " \o fields[1]
  IN IF defType = "DIALOG" /\ Len(fields) > 1 /\ ToUpper(fields[2]) \in {"TEXT", "BUTTON"}
       THEN key \o " " \o ToUpper(fields[2])
       ELSE key

\* the definition key of a tracked header
\* mutant: the TEXT / BUTTON sub-part of a DIALOG header is left out of the key
HeaderKey_NoSubtype(defType, fields) ==
  defType \o " " \o ToUpper(fields[1])

HeaderKey(defType, fields) ==
  LET key == defType \o " " \o ToUpper(fields[1])
  IN IF defType = "DIALOG" /\ Len(fields) > 1 /\ ToUpper(fields[2]) \in {"TEXT", "BUTTON"}
       THEN key \o " " \o ToUpper(fields[2])
       ELSE key

\* a definition header line; defMatch holds the two groups of defHeaderPattern
OnDefHeader(s, rel, defMatch) ==
  LET lineNum == s.lineNum
      flushed == appendUnclosedStackErrors(s.issues, s.stack, rel, lineNum,
                                           " before new section.", FALSE)
      defType == ToUpper(defMatch[1])
      fields == Fields(TrimSpace(defMatch[2]))
      id == IF Len(fields) > 0 THEN ToUpper(fields[1]) ELSE ""
      key == HeaderKey(defType, fields)
      s1 == [s EXCEPT !.issues = flushed,
                      !.currentSection = defType,
                      !.inTextBlock = (defType = "BOOK" \/ defType = "COMMENT"),
                      !.stack = <<>>]
  IN IF defType \in trackDefTypes /\ id # ""
       THEN IF key \in DOMAIN s.defIndex
              THEN [s1 EXCEPT !.idIndex = recordIdentifier(@, id, rel, lineNum),
                              !.issues = Append(@, Issue(rel, lineNum, "DUPLICATE",
                                  "DUPLICATE: '" \o key \o "' already defined at "
                                    \o s.defIndex[key].file \o ":"
                                    \o ToString(s.defIndex[key].line) \o "."))]
              ELSE [s1 EXCEPT !.idIndex = recordIdentifier(@, id, rel, lineNum),
                              !.defIndex = @ @@ (key :> Loc(rel, lineNum))]
       ELSE s1

\* mutant: the trigger reports the open frames but leaves them on the stack
OnTrigger_KeepStack(s, rel) ==
  [s EXCEPT !.inTextBlock = FALSE,
            !.currentSection = "",
            !.issues = appendUnclosedStackErrors(@, s.stack, rel, s.lineNum,
                                                 " before new trigger.", FALSE)]

\* a trigger line
OnTrigger(s, rel) ==
  [s EXCEPT !.inTextBlock = FALSE,
            !.currentSection = "",
            !.issues = appendUnclosedStackErrors(@, s.stack, rel, s.lineNum,
                                                 " before new trigger.", FALSE),
            !.stack = <<>>]

\* the alias-table and DEFNAME= registrations of an ordinary line
\* mutant: a DEFNAME= line registers the alias name only, no definition key
RecordNames_NoDefKey(s, rel, cleaned) ==
  LET lineNum == s.lineNum
      fields == Fields(cleaned)
      s1 == IF isDefnameSection(s.currentSection) /\ Len(fields) > 0
              THEN [s EXCEPT !.defnameIndex = recordDefName(@, fields[1], rel, lineNum)]
              ELSE s
      name == parseDefnameAssignment(cleaned)
  IN IF name = "" THEN s1
     ELSE [s1 EXCEPT !.defnameIndex = recordDefName(@, ToUpper(name), rel, lineNum)]

RecordNames(s, rel, cleaned) ==
  LET lineNum == s.lineNum
      fields == Fields(cleaned)
      s1 == IF isDefnameSection(s.currentSection) /\ Len(fields) > 0
              THEN [s EXCEPT !.defnameIndex = recordDefName(@, fields[1], rel, lineNum)]
              ELSE s
      name == parseDefnameAssignment(cleaned)
      upperName == ToUpper(name)
      key == s.currentSection \o " " \o upperName
  IN IF name = "" THEN s1
     ELSE LET s2 == [s1 EXCEPT !.defnameIndex = recordDefName(@, upperName, rel, lineNum)]
          IN IF s.currentSection \in {"ITEMDEF", "CHARDEF", "TEMPLATE"}
                  /\ key \notin DOMAIN s2.defIndex
               THEN [s2 EXCEPT !.defIndex = @ @@ (key :> Loc(rel, lineNum))]
               ELSE s2

\* the typo, empty-statement and text-after-[EOF] checks of an ordinary line
KeywordIssues(issues, rel, lineNum, cleaned, upperToken) ==
  LET trimmed == TrimSpace(cleaned)
      add(errs, cond, kind, msg) == IF cond THEN appendError(errs, rel, lineNum, kind, msg)
                                            ELSE errs
      e1 == add(issues, upperToken = "DORAN", "TYPO",
                "TYPO: 'DORAN' found. Did you mean 'DORAND'?")
      e2 == add(e1, upperToken = "EN", "TYPO",
                "TYPO: 'EN' found. Did you mean 'ENDO', 'ENDDO', or 'ENDIF'?")
      e3 == add(e2, upperToken = "IF" /\ trimmed = "IF", "LOGIC",
                "LOGIC: empty 'IF' statement.")
      e4 == add(e3, upperToken = "ELSEIF" /\ trimmed = "ELSEIF", "LOGIC",
                "LOGIC: empty 'ELSEIF' statement.")
      e5 == add(e4, upperToken = "ELIF" /\ trimmed = "ELIF", "LOGIC",
                "LOGIC: empty 'ELIF' statement.")
      e6 == add(e5, HasPrefix(trimmed, "[EOF]") /\ trimmed # "[EOF]", "CRITICAL",
                "CRITICAL: text found after [EOF].")
  IN e6

\* the missing-argument check of an ordinary line
MissingArgIssues(issues, rel, lineNum, cleaned, upperToken) ==
  IF countFields(cleaned, 2) < 2
    THEN IF upperToken \in DOMAIN missingArgMessages
           THEN appendError(issues, rel, lineNum, "LOGIC", missingArgMessages[upperToken])
         ELSE IF upperToken \in forArgTokens
           THEN appendError(issues, rel, lineNum, "LOGIC",
                            "LOGIC: " \o upperToken \o " missing argument")
         ELSE issues
    ELSE issues

\* the block-stack part of an ordinary line; cont: the line ended in `continue`
BlockStep(s, rel, upperToken) ==
  LET lineNum == s.lineNum
      endToken == normalizeEndToken(upperToken)
      n == Len(s.stack)
  IN IF endToken # ""
       THEN IF n = 0
              THEN [st |-> [s EXCEPT !.issues = appendError(@, rel, lineNum, "BLOCK",
                               "BLOCK: '" \o upperToken \o "' without opening block.")],
                    cont |-> TRUE]
              ELSE LET last == s.stack[n]
                       expected == blockStartToEnd[last.typ]
                       popped == [s EXCEPT !.stack = SubSeq(@, 1, n - 1),
                                           !.popped = @ + 1]
                   IN [st |-> IF endToken # expected
                                THEN [popped EXCEPT !.issues = appendError(@, rel, lineNum, "BLOCK",
                                        "BLOCK: mismatch. '" \o last.typ \o "' closed by '"
                                          \o upperToken \o "' (expected " \o expected \o ").")]
                                ELSE popped,
                       cont |-> TRUE]
     ELSE IF upperToken \in {"ELSE", "ELIF", "ELSEIF"}
       THEN [st |-> IF n = 0 \/ s.stack[n].typ # "IF"
                      THEN [s EXCEPT !.issues = appendError(@, rel, lineNum, "BLOCK",
                              "BLOCK: '" \o upperToken \o "' without matching IF.")]
                      ELSE s,
             cont |-> TRUE]
     ELSE IF upperToken \in DOMAIN blockStartToEnd
       THEN [st |-> [s EXCEPT !.stack = Append(@, [typ |-> upperToken, line |-> lineNum]),
                              !.pushed = @ + 1],
             cont |-> TRUE]
     ELSE [st |-> s, cont |-> FALSE]

\* the template checks and the reference collection that end an ordinary line
CollectStep(s, rel, cleaned) ==
  LET lineNum == s.lineNum
      s1 == IF s.currentSection = "TEMPLATE"
              THEN [s EXCEPT !.issues = @ \o validateTemplateLine(cleaned, rel, lineNum),
                             !.references = collectTemplateReferences(cleaned, rel, lineNum, @)]
              ELSE s
  IN IF ~isAliasSection(s.currentSection)
       THEN [s1 EXCEPT !.references = collectReferenceUses(cleaned, rel, lineNum, @)]
       ELSE s1

\* a line that is no header and no trigger, outside free-text mode
OnStatement(s, rel, cleaned) ==
  LET lineNum == s.lineNum
      s2 == RecordNames(s, rel, cleaned)
      token == firstToken(cleaned)
      upperToken == ToUpper(token)
      isWriteFile == hasPrefixFold(cleaned, "SERV.WRITEFILE ")
      isTextLine == isTextKeyword(token)
      isFlowControl == upperToken \in {"IF", "ELIF", "ELSEIF", "WHILE"}
      isAssignment == Contains(cleaned, "=") /\ ~isFlowControl
      bracketErr == checkBrackets(cleaned)
      s3 == IF ~isTextLine /\ ~isWriteFile /\ bracketErr # ""
              THEN [s2 EXCEPT !.issues = appendError(@, rel, lineNum, "SYNTAX",
                                                     "SYNTAX: brackets -> " \o bracketErr)]
              ELSE s2
      s4 == [s3 EXCEPT !.issues =
               MissingArgIssues(KeywordIssues(@, rel, lineNum, cleaned, upperToken),
                                rel, lineNum, cleaned, upperToken)]
      blk == IF ~isTextLine /\ ~isAssignment
               THEN BlockStep(s4, rel, upperToken)
               ELSE [st |-> s3, cont |-> FALSE]
  IN IF blk.cont THEN blk.st
     ELSE IF ~isTextLine /\ ~isWriteFile THEN CollectStep(blk.st, rel, cleaned)
     ELSE blk.st

\* one iteration of the loop of lintScriptFile on the raw line
ScanStep(s, rel, raw) ==
  LET cleaned == cleanLine(raw)
      s0 == [s EXCEPT !.lineNum = @ + 1,
                      !.lastNonEmpty = IF cleaned # "" THEN cleaned ELSE @]
      defMatch == defHeaderPattern(cleaned)
  IN IF cleaned = "" THEN s0
     ELSE IF commentHeaderPattern(cleaned) THEN OnCommentHeader(s0, rel)
     ELSE IF Len(defMatch) = 2 THEN OnDefHeader(s0, rel, defMatch)
     ELSE IF triggerPattern(cleaned) THEN OnTrigger(s0, rel)
     ELSE IF s0.inTextBlock THEN s0
     ELSE OnStatement(s0, rel, cleaned)

ScanErrMsg == "read error"

\* mutant: the terminal marker is compared case-sensitively
MissingEOF_CaseSensitive(s) == TrimSpace(s.lastNonEmpty) # "[EOF]"

MissingEOF(s) == ToUpper(TrimSpace(s.lastNonEmpty)) # "[EOF]"

\* mutant: the frames left on the stack are not reported
FinishScan_StackNotReported(s, rel, scanErr) ==
  LET e1 == IF scanErr THEN appendError(s.issues, rel, s.lineNum, "CRITICAL", ScanErrMsg)
                       ELSE s.issues
      lineNum == IF MissingEOF(s) /\ s.lineNum = 0 THEN 1 ELSE s.lineNum
      e2 == IF MissingEOF(s)
              THEN appendError(e1, rel, lineNum, "CRITICAL",
                               "CRITICAL: missing [EOF] at end of file.")
              ELSE e1
  IN [s EXCEPT !.issues = e2, !.lineNum = lineNum]

\* the code of lintScriptFile after its loop; scanErr: scanner.Err() is not nil
FinishScan(s, rel, scanErr) ==
  LET e1 == IF scanErr THEN appendError(s.issues, rel, s.lineNum, "CRITICAL", ScanErrMsg)
                       ELSE s.issues
      lineNum == IF MissingEOF(s) /\ s.lineNum = 0 THEN 1 ELSE s.lineNum
      e2 == IF MissingEOF(s)
              THEN appendError(e1, rel, lineNum, "CRITICAL",
                               "CRITICAL: missing [EOF] at end of file.")
              ELSE e1
      e3 == IF Len(s.stack) > 0
              THEN appendUnclosedStackErrors(e2, s.stack, rel, lineNum, ".", TRUE)
              ELSE e2
  IN [s EXCEPT !.issues = e3, !.lineNum = lineNum]

\* the loop of lintScriptFile over the lines from line n on
RECURSIVE ScanLines(_, _, _, _)
ScanLines(s, rel, lines, n) ==
  IF n > Len(lines) THEN s ELSE ScanLines(ScanStep(s, rel, lines[n]), rel, lines, n + 1)

\* a whole scan of a readable file: the final scan state (issues and shared tables)
lintScriptFile(sh, rel, lines) == FinishScan(ScanLines(StartScan(sh), rel, lines, 1), rel, FALSE)

(***************************************************************************)
(* The run (main): files are scanned one at a time, in any order, each to  *)
(* completion; the resolution pass follows the last scan.                  *)
(*   corpus            the files of the run, each a sequence of raw lines  *)
(*   remaining         the files not yet visited                           *)
(*   cur               the file being scanned (0: none)                    *)
(*   pc                "walk" between files, "scan" inside the loop of     *)
(*                     lintScriptFile, "done" after the resolution pass    *)
(*   calls             history: one record per finished lintScriptFile     *)
(*                     call, in call order                                 *)
(*   failures          history: the read failures met so far               *)
(* The other variables carry the names of the code.                        *)
(***************************************************************************)
VARIABLES corpus, remaining, cur, pc, calls, failures,
          defLocations, defnameLocations, idLocations, refUses, issues,
          undefinedIssues,
          fileIssues, stack, inTextBlock, currentSection, lineNum, lastNonEmpty,
          pushed, popped

sharedVars == <<defLocations, defnameLocations, idLocations, refUses>>

localVars == <<fileIssues, stack, inTextBlock, currentSection, lineNum, lastNonEmpty,
               pushed, popped>>

vars == <<corpus, remaining, cur, pc, calls, failures, sharedVars, issues,
          undefinedIssues, localVars>>

\* bounds of the explored inputs
MaxLines == 3
MaxFiles == 2
MaxFailures == 1

\* toRelative(path) of the n-th file of the corpus
FileName(n) == "f" \o ToString(n) \o ".scp"

OpenErrMsg == "open error"

\* the scan state made of the variables
CurScan ==
  [defIndex |-> defLocations, defnameIndex |-> defnameLocations, idIndex |-> idLocations,
   references |-> refUses,
   issues |-> fileIssues, stack |-> stack, inTextBlock |-> inTextBlock,
   currentSection |-> currentSection, lineNum |-> lineNum, lastNonEmpty |-> lastNonEmpty,
   pushed |-> pushed, popped |-> popped]

SetScan(s) ==
  /\ defLocations' = s.defIndex
  /\ defnameLocations' = s.defnameIndex
  /\ idLocations' = s.idIndex
  /\ refUses' = s.references
  /\ fileIssues' = s.issues
  /\ stack' = s.stack
  /\ inTextBlock' = s.inTextBlock
  /\ currentSection' = s.currentSection
  /\ lineNum' = s.lineNum
  /\ lastNonEmpty' = s.lastNonEmpty
  /\ pushed' = s.pushed
  /\ popped' = s.popped

Call(f, outcome, delivered, s) ==
  [file |-> f, outcome |-> outcome, delivered |-> delivered, issues |-> s.issues,
   stackAtEnd |-> s.stack, pushed |-> s.pushed, popped |-> s.popped]

InitRun(files) ==
  /\ corpus = files
  /\ remaining = 1..Len(files)
  /\ cur = 0
  /\ pc = "walk"
  /\ calls = <<>>
  /\ failures = 0
  /\ defLocations = EmptyMap
  /\ defnameLocations = EmptyMap
  /\ idLocations = EmptyMap
  /\ refUses = <<>>
  /\ issues = <<>>
  /\ undefinedIssues = <<>>
  /\ fileIssues = <<>>
  /\ stack = <<>>
  /\ inTextBlock = FALSE
  /\ currentSection = ""
  /\ lineNum = 0
  /\ lastNonEmpty = ""
  /\ pushed = 0
  /\ popped = 0

\* lintScriptFile is called on file f and os.Open fails
OpenFail(f) ==
  /\ pc = "walk"
  /\ f \in remaining
  /\ failures < MaxFailures
  /\ failures' = failures + 1
  /\ remaining' = remaining \ {f}
  /\ issues' = Append(issues, Issue(FileName(f), 1, "CRITICAL", OpenErrMsg))
  /\ calls' = Append(calls,
       [file |-> f, outcome |-> "openfail", delivered |-> 0,
        issues |-> <<Issue(FileName(f), 1, "CRITICAL", OpenErrMsg)>>,
        stackAtEnd |-> <<>>, pushed |-> 0, popped |-> 0])
  /\ UNCHANGED <<corpus, cur, pc, sharedVars, undefinedIssues, localVars>>

\* mutant: the block stack, the free-text flag and the section of the scan
\* before are those of the new scan
OpenFile_KeepsLocals(f) ==
  /\ pc = "walk"
  /\ f \in remaining
  /\ remaining' = remaining \ {f}
  /\ cur' = f
  /\ pc' = "scan"
  /\ SetScan([StartScan(Shared(defLocations, defnameLocations, idLocations, refUses))
                EXCEPT !.stack = stack, !.inTextBlock = inTextBlock,
                       !.currentSection = currentSection])
  /\ UNCHANGED <<corpus, calls, failures, issues, undefinedIssues>>

\* lintScriptFile is called on file f and the file opens
OpenFile(f) ==
  /\ pc = "walk"
  /\ f \in remaining
  /\ remaining' = remaining \ {f}
  /\ cur' = f
  /\ pc' = "scan"
  /\ SetScan(StartScan(Shared(defLocations, defnameLocations, idLocations, refUses)))
  /\ UNCHANGED <<corpus, calls, failures, issues, undefinedIssues>>

\* one iteration of the loop: scanner.Scan() delivers the next line
ScanLine ==
  /\ pc = "scan"
  /\ lineNum < Len(corpus[cur])
  /\ SetScan(ScanStep(CurScan, FileName(cur), corpus[cur][lineNum + 1]))
  /\ UNCHANGED <<corpus, remaining, cur, pc, calls, failures, issues, undefinedIssues>>

\* the end of lintScriptFile and the append of its issues in main
Return(outcome, scanErr) ==
  LET s == FinishScan(CurScan, FileName(cur), scanErr)
  IN /\ SetScan(s)
     /\ issues' = issues \o s.issues
     /\ calls' = Append(calls, Call(cur, outcome, lineNum, s))
     /\ cur' = 0
     /\ pc' = "walk"
     /\ UNCHANGED <<corpus, remaining, undefinedIssues>>

\* scanner.Scan() returns false at the end of the file
EndOfFile ==
  /\ pc = "scan"
  /\ lineNum = Len(corpus[cur])
  /\ Return("ok", FALSE)
  /\ UNCHANGED failures

\* scanner.Scan() returns false on a read error, after any number of lines
ScanError ==
  /\ pc = "scan"
  /\ failures < MaxFailures
  /\ failures' = failures + 1
  /\ Return("scanerr", TRUE)

\* mutant: the resolution pass may start while files are still to be visited
Resolve_Early ==
  /\ pc = "walk"
  /\ undefinedIssues' =
       findUndefinedReferences(refUses, defLocations, defnameLocations, idLocations)
  /\ issues' = issues \o undefinedIssues'
  /\ pc' = "done"
  /\ UNCHANGED <<corpus, remaining, cur, calls, failures, sharedVars, localVars>>

\* mutant: the resolution pass empties the reference list it was given
Resolve_ConsumesReferences ==
  /\ pc = "walk"
  /\ remaining = {}
  /\ undefinedIssues' =
       findUndefinedReferences(refUses, defLocations, defnameLocations, idLocations)
  /\ issues' = issues \o undefinedIssues'
  /\ pc' = "done"
  /\ refUses' = <<>>
  /\ UNCHANGED <<corpus, remaining, cur, calls, failures, defLocations, defnameLocations,
                 idLocations, localVars>>

\* main calls findUndefinedReferences once every file has been visited
Resolve ==
  /\ pc = "walk"
  /\ remaining = {}
  /\ undefinedIssues' =
       findUndefinedReferences(refUses, defLocations, defnameLocations, idLocations)
  /\ issues' = issues \o undefinedIssues'
  /\ pc' = "done"
  /\ UNCHANGED <<corpus, remaining, cur, calls, failures, sharedVars, localVars>>

Next ==
  \/ \E f \in remaining : OpenFail(f)
  \/ \E f \in remaining : OpenFile(f)
  \/ ScanLine
  \/ EndOfFile
  \/ ScanError
  \/ Resolve

(***************************************************************************)
(* Explored inputs.  Every specification runs the same program on its own  *)
(* family of corpora.                                                      *)
(***************************************************************************)
SeqsUpTo(S, n) == UNION {[1..k -> S] : k \in 0..n}

\* terminal-marker lines, blank and comment-only lines, a header, a block opener
EOFVocab ==
  {"[EOF]", " [eof] // end", "", "// note", "[EOF] trailing", "[EOF] x=1",
   "[COMMENT c]", "IF 1"}

EOFFiles == SeqsUpTo(EOFVocab, MaxLines)

InitEOF == \E file \in EOFFiles : InitRun(<<file>>)

SpecEOF == InitEOF /\ [][Next]_vars

\* block openers and closers, the three kinds of boundary lines
BlockVocab ==
  {"IF 1", "for 3", "ENDIF", "ENDO", "[ITEMDEF i_a]", "[COMMENT]",
   "ON=@DropOn Char", "ELSE"}

BlockFiles == SeqsUpTo(BlockVocab, MaxLines)

InitBlock == \E file \in BlockFiles : InitRun(<<file>>)

SpecBlock == InitBlock /\ [][Next]_vars

HeaderLine(defType, id) == "[" \o defType \o " " \o id \o "]"

\* two files, each one header and the terminal marker; the second file repeats
\* the type and id of the first, or differs in one of them
DupSecondTypes(T) == {T, "MULTIDEF", IF T = "ITEMDEF" THEN "CHARDEF" ELSE "ITEMDEF"}

InitDup ==
  \E T \in trackDefTypes, T2 \in trackDefTypes \cup {"MULTIDEF"}, id2 \in {"dup", "Dup", "other"},
     lead \in {<<>>, <<"">>} :
    /\ T2 \in DupSecondTypes(T)
    /\ InitRun(<< lead \o <<HeaderLine(T, "dup"), "[EOF]">>,
                  <<HeaderLine(T2, id2), "[EOF]">> >>)

SpecDup == InitDup /\ [][Next]_vars

\* files that declare identifiers, refer to them and hold alias tables
RefFiles ==
  << <<"[ITEMDEF i_a]", "X i_b c_1 i_m", "[EOF]">>,
     <<"[SPAWN c_1]", "[MULTIDEF 01]", "DEFNAME=i_b", "[EOF]">>,
     <<"[RESDEFNAME t]", "i_c i_zz", "[res_resdefname u]", "r_q i_b", "[EOF]">>,
     <<"[FUNCTION f_x]", "Y r_q i_m r_q i_m", "[DEFNAME d]", "v { i_c 1 i_a 1 }",
       "[EOF]">> >>

\* a corpus is a multiset of these files: the run visits its files in any order
InitRef ==
  \E n \in 1..MaxFiles : \E ix \in [1..n -> 1..Len(RefFiles)] :
    /\ \A i \in 1..n : \A j \in 1..n : i < j => ix[i] <= ix[j]
    /\ InitRun([i \in 1..n |-> RefFiles[ix[i]]])

SpecRef == InitRef /\ [][Next]_vars

\* a [COMMENT] section holding prose, indented bracketed lines and indented
\* block keywords, followed by a tracked header and the terminal marker
CommentVocab == {"the default human template,", "  [NEWBIE Alchemy]", "  IF 1"}

CommentFiles ==
  {<<"[COMMENT sphere_newb]">> \o body \o <<"[ITEMDEF i_test]", "[EOF]">> :
     body \in SeqsUpTo(CommentVocab, MaxLines + 1)}

InitComment == \E file \in CommentFiles : InitRun(<<file>>)

SpecComment == InitComment /\ [][Next]_vars

\* lines holding angle expressions: comparisons inside and outside
\* evaluation expressions, unterminated plain and evaluation expressions, and
\* two lines that are exempt from the bracket check
AngleVocab ==
  {"IF (<MOREY> > <MOREX>)",
   "V=<EVAL (<MOREY> > <MOREX>)>",
   "V=<EVAL (<MOREY> <= <MOREX>)>",
   "V=<EVAL ((<A> >= 3) || (<B> < -1000) || (<C>&002000000))>",
   "V=<EVAL (<MORE>)>/8",
   "V=<EVAL (<MORE>)</8",
   "IF <SRC.NPC", "X <A<B>", "X (<A.B",
   "X <EVAL 1", "X <EVAL (<A",
   "X <A> <B.C>",
   "SAY <A", "SERV.WRITEFILE f <A"}

AngleFiles == SeqsUpTo(AngleVocab, MaxLines - 1)

InitAngle == \E file \in AngleFiles : InitRun(<<file>>)

SpecAngle == InitAngle /\ [][Next]_vars

\* one section of statements: block openers with and without '=' in their
\* argument, closers, and lines that name identifiers of the prefix convention
StmtVocab ==
  {"IF 1", "IF <A>=1", "FOR x=1", "dorand 2", "ENDIF", "ENDFOR", "ENDDO",
   "IF i_nope", "X i_nope", "SAY i_nope", "SERV.WRITEFILE f i_nope",
   "X F_MULTIS_<SRC.X>", "X i_foo<SRC.X>", "[EOF]"}

StmtFiles == {<<"[ITEMDEF i_test]">> \o body : body \in SeqsUpTo(StmtVocab, MaxLines - 1)}

InitStmt == \E file \in StmtFiles : InitRun(<<file>>)

SpecStmt == InitStmt /\ [][Next]_vars

\* files that introduce the name i_c: alias tables, and DEFNAME= lines in
\* untracked, id-bearing and free-text sections and outside any section
DeclFiles ==
  {<<"[RESDEFNAME t]", "i_c i_zz", "[EOF]">>,
   <<"[res_resdefname t]", "i_c i_zz", "[EOF]">>,
   <<"[MULTIDEF 01]", "DEFNAME=i_c", "[EOF]">>,
   <<"[ITEMDEF 02]", "defname=i_c", "[EOF]">>,
   <<"[ITEMDEF i_c]", "DEFNAME=i_c", "[EOF]">>,
   <<"[CHARDEF 04]", "DEFNAME=i_c", "[EOF]">>,
   <<"[TEMPLATE 03]", "DEFNAME=i_c", "[EOF]">>,
   <<"[COMMENT x]", "DEFNAME=i_c", "[EOF]">>,
   <<"DEFNAME=i_c", "[EOF]">>}

\* files that refer to the names of an alias-table line
UseFiles ==
  {<<"[FUNCTION f_x]", "X i_c", "[EOF]">>,
   <<"[FUNCTION f_x]", "X i_zz", "[EOF]">>}

InitNames == \E d \in DeclFiles, u \in UseFiles : InitRun(<<d, u>>)

SpecNames == InitNames /\ [][Next]_vars

\* DIALOG headers with and without a TEXT / BUTTON sub-part, in mixed case, and
\* the terminal marker
DialogVocab == {"[DIALOG d]", "[DIALOG d TEXT]", "[dialog D Button]", "[EOF]"}

DialogFiles == SeqsUpTo(DialogVocab, MaxLines + 2)

InitDialog == \E file \in DialogFiles : InitRun(<<file>>)

SpecDialog == InitDialog /\ [][Next]_vars

\* ITEM= / CONTAINER= lines of a TEMPLATE section: range selectors with and
\* without padding and with one, two and three numbers, R selectors, empty
\* values, names of items and templates declared later in the file or nowhere
TemplateVocab ==
  {"ITEM={1 3}", "ITEM={ 1 3 }", "CONTAINER={1 2 3}", "item = {7} {2 3 } {t_y 1}",
   "ITEM=i_a,R1A", "CONTAINER=r5 random_food", "ITEM=", "container =",
   "ITEM=random_missing", "CONTAINER=i_missing", "ITEM=t_y", "CONTAINER=i_a",
   "ITEM=R2 r3x R4_ container", "ITEM=i_missing"}

TemplateTails == {<<>>, <<"[EOF]">>, <<"[TEMPLATE t_y]", "[ITEMDEF i_a]", "[EOF]">>}

TemplateFiles ==
  {<<"[TEMPLATE t_x]">> \o body \o tail :
     body \in SeqsUpTo(TemplateVocab, MaxLines - 1), tail \in TemplateTails}

InitTemplate == \E file \in TemplateFiles : InitRun(<<file>>)

SpecTemplate == InitTemplate /\ [][Next]_vars

\* the loop and choice openers that take an argument, alone on the line and
\* with an argument, and their closers
LoopBare ==
  {"WHILE", "FOR", "DORAND", "DOSWITCH", "FORCHARS", "FORITEMS", "forobjs", "FORCONT",
   "FORCONTID", "FORCONTTYPE", "FORINSTANCES", "FORCHARLAYER", "FORCHARMEMORYTYPE"}

LoopWithArg == {"FOR 1 3", "while 1", "DORAND 2", "FORITEMS 5"}

LoopVocab == LoopBare \cup LoopWithArg \cup {"ENDWHILE", "ENDFOR", "ENDDO"}

LoopFiles ==
  {<<"[ITEMDEF i_test]">> \o body \o tail :
     body \in SeqsUpTo(LoopVocab, MaxLines - 1), tail \in {<<>>, <<"[EOF]">>}}

InitLoop == \E file \in LoopFiles : InitRun(<<file>>)

SpecLoop == InitLoop /\ [][Next]_vars

\* one opener for each expected closer (three for ENDDO), and every closing
\* keyword, one in lower case
CloseOpeners == {"IF 1", "WHILE 1", "FOR 3", "DORAND 2", "DOSWITCH 1", "DOSELECT 2", "BEGIN"}

CloseClosers == {"ENDIF", "ENDWHILE", "ENDFOR", "ENDDO", "END", "ENDO", "endor"}

CloseFiles ==
  {<<"[ITEMDEF i_test]">> \o body :
     body \in SeqsUpTo(CloseOpeners \cup CloseClosers, MaxLines)}

InitClose == \E file \in CloseFiles : InitRun(<<file>>)

SpecClose == InitClose /\ [][Next]_vars

\* else lines in their three spellings, with and without a condition, after an
\* IF, after a WHILE and with no block open
ElseVocab ==
  {"IF 1", "WHILE 1", "ENDIF", "ELSE", "ELIF <A>=1", "elseif 1", "ELSE IF <X>=1"}

ElseFiles == {<<"[ITEMDEF i_test]">> \o body : body \in SeqsUpTo(ElseVocab, MaxLines)}

InitElse == \E file \in ElseFiles : InitRun(<<file>>)

SpecElse == InitElse /\ [][Next]_vars

\* a file that opens a free-text section, then headers of text and non-text
\* types, a trigger, and lines that outside free-text mode would open a block,
\* raise an issue, add a reference or register a name
TextHeaders == {"[COMMENT c]", "[BOOK b]"}

TextEnders == {"[ITEMDEF i_a]", "ON=@Create"}

TextLines == {"IF 1", "ENDIF", "X i_nope )", "DEFNAME=i_q", "[EOF] trailing"}

TextFiles ==
  {<<first>> \o body :
     first \in TextHeaders,
     body \in SeqsUpTo(TextHeaders \cup TextEnders \cup TextLines, MaxLines)}

InitText == \E file \in TextFiles : InitRun(<<file>>)

SpecText == InitText /\ [][Next]_vars

\* two files that register the same names by header, by DEFNAME= line and by
\* alias-table line, in every order, and refer to them
IndexVocab == {"[ITEMDEF i_x]", "[ITEMDEF i_a]", "DEFNAME=i_x", "X i_x i_y"}

IndexSecond ==
  {<<"[ITEMDEF i_x]", "[EOF]">>,
   <<"[ITEMDEF i_a]", "DEFNAME=i_x", "[EOF]">>,
   <<"[CHARDEF i_x]", "defname=I_X", "X i_y">>,
   <<"[RESDEFNAME r]", "i_x i_y", "[EOF]">>}

InitIndex ==
  \E first \in SeqsUpTo(IndexVocab, MaxLines), second \in IndexSecond :
    InitRun(<<first, second>>)

SpecIndex == InitIndex /\ [][Next]_vars

\* every line of up to MaxLines + 1 characters made of brackets, angles and a
\* letter, as the one statement of a section
BracketLines ==
  {JoinStrings(w, "") :
     w \in SeqsUpTo({"(", ")", "[", "]", "{", "}", "<", ">", "a"}, MaxLines + 1)} \ {""}

InitBracket == \E line \in BracketLines : InitRun(<<<<"[ITEMDEF i_test]", line>>>>)

SpecBracket == InitBracket /\ [][Next]_vars

\* one statement whose argument starts an angle expression: '<' followed by
\* up to MaxLines characters, identifier-like or not
PlainLines ==
  {"X <" \o JoinStrings(w, "") :
     w \in SeqsUpTo({"A", "1", "_", ".", " ", ">", "+"}, MaxLines)}

InitPlain == \E line \in PlainLines : InitRun(<<<<"[ITEMDEF i_test]", line>>>>)

SpecPlain == InitPlain /\ [][Next]_vars

\* the angle scripts above, and every statement whose argument is '<'
\* followed by up to MaxLines pieces: the EVAL keyword, a letter, angles,
\* parentheses, a blank, an equals sign
AnglePieceLines ==
  {"X <" \o JoinStrings(w, "") :
     w \in SeqsUpTo({"EVAL", "A", "<", ">", "(", ")", " ", "="}, MaxLines)}

InitAngleScan ==
  \/ InitAngle
  \/ \E line \in AnglePieceLines : InitRun(<<<<line>>>>)

SpecAngleScan == InitAngleScan /\ [][Next]_vars

\* two files: one that ends with a block open, inside a COMMENT section,
\* inside an alias table, or with nothing open; and one of statements whose
\* treatment depends on the block stack, the free-text flag and the section
CarryFirst ==
  {<<"[ITEMDEF i_a]", "IF 1">>,
   <<"[COMMENT c]", "X i_nope">>,
   <<"[RESDEFNAME r]", "i_q i_z">>,
   <<"[ITEMDEF i_a]", "[EOF]">>}

InitCarry ==
  \E first \in CarryFirst,
     second \in SeqsUpTo({"ENDIF", "i_x i_y", "X i_x", "[EOF]"}, MaxLines) :
    InitRun(<<first, second>>)

SpecCarry == InitCarry /\ [][Next]_vars

(***************************************************************************)
(* Properties.  A finished call c of calls has delivered the first         *)
(* c.delivered lines of its file.                                          *)
(***************************************************************************)
ScanCalls == {n \in 1..Len(calls) : calls[n].outcome # "openfail"}

Delivered(c) == SubSeq(corpus[c.file], 1, c.delivered)

MaxOf(S) == CHOOSE x \in S : \A y \in S : y <= x

MissingEOFMsg == "CRITICAL: missing [EOF] at end of file."

TextAfterEOFMsg == "CRITICAL: text found after [EOF]."

EOFUnclosedMsg(k) == "BLOCK: unclosed '" \o k \o "' block."

SectionFlushMsg(k) == "BLOCK: unclosed '" \o k \o "' block before new section."

TriggerFlushMsg(k) == "BLOCK: unclosed '" \o k \o "' block before new trigger."

\* the lines of EOFVocab that are blank once the comment is stripped, and those
\* that are the terminal marker
C1_BlankLines == {"", "// note"}

C1_MarkerLines == {"[EOF]", " [eof] // end"}

C1_EndsWithMarker(lines) ==
  LET nb == {i \in 1..Len(lines) : lines[i] \notin C1_BlankLines}
  IN nb # {} /\ lines[MaxOf(nb)] \in C1_MarkerLines

\* C1: a scan returns the CRITICAL missing-[EOF] issue exactly once when the last
\* non-blank comment-stripped line it read is not [EOF] (in any letter case) and
\* not at all otherwise; the issue's line is the number of lines scanned, or 1
\* when no line was scanned.
C1_MissingEOFExactlyWhenUnterminated ==
  \A n \in ScanCalls :
    LET c == calls[n]
        found == SelectSeq(c.issues, LAMBDA e : e.msg = MissingEOFMsg)
    IN /\ Len(found) = IF C1_EndsWithMarker(Delivered(c)) THEN 0 ELSE 1
       /\ \A k \in 1..Len(found) :
            found[k] = Issue(FileName(c.file), IF c.delivered = 0 THEN 1 ELSE c.delivered,
                             "CRITICAL", MissingEOFMsg)

\* a finished scan of a file whose marker is followed by blank or comment-only
\* lines, in lower case, and that returned no missing-[EOF] issue
C1_Witness ==
  \E n \in ScanCalls :
    LET c == calls[n]
    IN /\ c.outcome = "ok"
       /\ c.delivered >= 2
       /\ corpus[c.file][c.delivered] \in C1_BlankLines
       /\ \E i \in 1..c.delivered : corpus[c.file][i] = " [eof] // end"
       /\ C1_EndsWithMarker(Delivered(c))
       /\ \A k \in 1..Len(c.issues) : c.issues[k].msg # MissingEOFMsg

\* the lines of EOFVocab that go on after the terminal marker
C8_TextAfterMarkerLines == {"[EOF] trailing", "[EOF] x=1"}

\* C8: every line that starts with [EOF] and goes on with further text yields a
\* CRITICAL text-found-after-[EOF] issue on that line, whatever the text holds
\* and whatever mode the scan is in.
C8_TextAfterEOFAlwaysReported ==
  \A n \in ScanCalls :
    LET c == calls[n]
    IN \A i \in 1..c.delivered :
         corpus[c.file][i] \in C8_TextAfterMarkerLines
           => \E k \in 1..Len(c.issues) :
                c.issues[k] = Issue(FileName(c.file), i, "CRITICAL", TextAfterEOFMsg)

\* the opening keyword of the opener lines of BlockVocab
OpenerOf(line) ==
  CASE line = "IF 1" -> "IF"
    [] line = "for 3" -> "FOR"
    [] OTHER -> ""

IsEOFUnclosed(e) ==
  e.kind = "BLOCK" /\ e.msg \in {EOFUnclosedMsg(k) : k \in DOMAIN blockStartToEnd}

IsFlushIssue(e) ==
  e.kind = "BLOCK" /\ e.msg \in {SectionFlushMsg(k) : k \in DOMAIN blockStartToEnd}
                                  \cup {TriggerFlushMsg(k) : k \in DOMAIN blockStartToEnd}

\* C5: every frame on the stack at the end of the file yields exactly one
\* "unclosed '<keyword>' block." issue, whose line is the line of the file that
\* holds the frame's opening keyword.
C5_UnclosedAtEOFOnOpeningLine ==
  \A n \in ScanCalls :
    LET c == calls[n]
        atEOF == SelectSeq(c.issues, IsEOFUnclosed)
    IN /\ Len(atEOF) = Len(c.stackAtEnd)
       /\ \A k \in 1..Len(atEOF) :
            /\ atEOF[k].line \in 1..c.delivered
            /\ OpenerOf(corpus[c.file][atEOF[k].line]) = c.stackAtEnd[k].typ
            /\ atEOF[k] = Issue(FileName(c.file), c.stackAtEnd[k].line, "BLOCK",
                                EOFUnclosedMsg(c.stackAtEnd[k].typ))

\* a finished scan that left two frames open and read a further line after them
C5_Witness ==
  \E n \in ScanCalls :
    LET c == calls[n]
    IN /\ c.outcome = "ok"
       /\ Len(c.stackAtEnd) = 2
       /\ c.delivered > c.stackAtEnd[2].line
       /\ Len(SelectSeq(c.issues, IsEOFUnclosed)) = 2

\* C6 as claimed: a frame still open at a new header or trigger is reported with
\* the line number of its own opening line.
C6_FlushReportedOnOpeningLine ==
  \A n \in ScanCalls :
    LET c == calls[n]
    IN \A k \in 1..Len(c.issues) :
         IsFlushIssue(c.issues[k]) =>
           LET k0 == OpenerOf(corpus[c.file][c.issues[k].line])
           IN c.issues[k].msg \in {SectionFlushMsg(k0), TriggerFlushMsg(k0)}

C6_SectionLines == {"[ITEMDEF i_a]", "[COMMENT]"}

C6_TriggerLines == {"ON=@DropOn Char"}

\* C6 (amended): a frame still open at a new header or trigger is reported with
\* the line number of that header or trigger line.
C6_FlushReportedOnBoundaryLine ==
  \A n \in ScanCalls :
    LET c == calls[n]
    IN \A k \in 1..Len(c.issues) :
         IsFlushIssue(c.issues[k]) =>
           /\ c.issues[k].line \in 1..c.delivered
           /\ \E kw \in DOMAIN blockStartToEnd :
                \/ /\ c.issues[k].msg = SectionFlushMsg(kw)
                   /\ corpus[c.file][c.issues[k].line] \in C6_SectionLines
                \/ /\ c.issues[k].msg = TriggerFlushMsg(kw)
                   /\ corpus[c.file][c.issues[k].line] \in C6_TriggerLines

\* a finished scan in which a frame opened on line 1 was reported on line 3
C6_Witness ==
  \E n \in ScanCalls :
    LET c == calls[n]
    IN \E k \in 1..Len(c.issues) :
         /\ c.issues[k] = Issue(FileName(c.file), 3, "BLOCK", TriggerFlushMsg("IF"))
         /\ corpus[c.file][1] = "IF 1"
         /\ OpenerOf(corpus[c.file][2]) = ""

C7_FlushStep ==
  (pc = "scan" /\ pc' = "scan" /\ lineNum' = lineNum + 1
     /\ corpus[cur][lineNum'] \in C6_SectionLines \cup C6_TriggerLines)
  => LET line == corpus[cur][lineNum']
         new == SubSeq(fileIssues', Len(fileIssues) + 1, Len(fileIssues'))
         blk == SelectSeq(new, LAMBDA e : e.kind = "BLOCK")
     IN /\ stack' = <<>>
        /\ SubSeq(fileIssues', 1, Len(fileIssues)) = fileIssues
        /\ Len(blk) = Len(stack)
        /\ \A k \in 1..Len(blk) :
             blk[k].msg = IF line \in C6_TriggerLines THEN TriggerFlushMsg(stack[k].typ)
                                                     ELSE SectionFlushMsg(stack[k].typ)

C7_Balance ==
  pushed = popped + (IF pc = "scan" THEN Len(stack) ELSE 0)
             + Len(SelectSeq(fileIssues, LAMBDA e : IsFlushIssue(e) \/ IsEOFUnclosed(e)))

\* C7: a definition header, a [COMMENT] header or a trigger line processed with
\* k frames open emits exactly k BLOCK issues, with the header or the trigger
\* suffix, and leaves the stack empty; so every frame pushed during a scan is
\* popped by a closer or reported as unclosed exactly once.
C7_FlushEmitsOnePerFrameAndEmpties == [][C7_FlushStep]_vars /\ []C7_Balance

\* a trigger line has just reported two open frames and emptied the stack
C7_Witness ==
  /\ pc = "scan"
  /\ stack = <<>>
  /\ pushed = 2
  /\ popped = 0
  /\ corpus[cur][lineNum] = "ON=@DropOn Char"
  /\ Len(SelectSeq(fileIssues, IsFlushIssue)) = 2

Range(seq) == {seq[n] : n \in 1..Len(seq)}

C2_IsDef(file, T, h) ==
  /\ Len(file) = h + 1
  /\ \A j \in 1..(h - 1) : file[j] = ""
  /\ file[h] \in {HeaderLine(T, "dup"), HeaderLine(T, "Dup")}
  /\ file[h + 1] = "[EOF]"

\* C2: for every tracked type T, when two files each hold the header [T dup]
\* followed by [EOF], the scan of the first returns no issue and the scan of the
\* second returns exactly one DUPLICATE issue, which names the first file and
\* the line of its header.
C2_SecondFileReportsDuplicate ==
  (Len(calls) = 2 /\ calls[1].outcome = "ok" /\ calls[2].outcome = "ok") =>
    \A T \in trackDefTypes : \A h1 \in 1..2 : \A h2 \in 1..2 :
      (C2_IsDef(corpus[calls[1].file], T, h1) /\ C2_IsDef(corpus[calls[2].file], T, h2)) =>
        /\ calls[1].issues = <<>>
        /\ calls[2].issues =
             <<Issue(FileName(calls[2].file), h2, "DUPLICATE",
                     "DUPLICATE: '" \o T \o " DUP' already defined at "
                       \o FileName(calls[1].file) \o ":" \o ToString(h1) \o ".")>>

\* both files scanned, the first with its TEMPLATE header on line 2, and the
\* second scan returned a DUPLICATE issue
C2_Witness ==
  /\ Len(calls) = 2
  /\ calls[1].outcome = "ok" /\ calls[2].outcome = "ok"
  /\ C2_IsDef(corpus[calls[1].file], "TEMPLATE", 2)
  /\ C2_IsDef(corpus[calls[2].file], "TEMPLATE", 1)
  /\ Len(calls[2].issues) = 1
  /\ calls[2].issues[1].kind = "DUPLICATE"

CallOf(f) == calls[CHOOSE n \in 1..Len(calls) : calls[n].file = f]

\* the shared tables after the files are scanned in the order of the corpus,
\* each scan reading the lines it read in the run
RECURSIVE InCorpusOrder(_, _)
InCorpusOrder(f, sh) ==
  IF f > Len(corpus) THEN sh
  ELSE IF CallOf(f).outcome = "openfail" THEN InCorpusOrder(f + 1, sh)
  ELSE InCorpusOrder(f + 1, ScanLines(StartScan(sh), FileName(f), Delivered(CallOf(f)), 1))

UndeclaredMsg(id, label) == "UNDECLARED: '" \o id \o "' not defined as " \o label

\* the first call read the file that refers to i_b and c_1, a later call the
\* file that declares them
C3_DeclaredLater ==
  /\ Len(calls) >= 2
  /\ calls[1].outcome = "ok"
  /\ corpus[calls[1].file] = RefFiles[1]
  /\ \E n \in 2..Len(calls) : calls[n].outcome = "ok" /\ corpus[calls[n].file] = RefFiles[2]

\* C3: the set of UNDECLARED issues of the resolution pass does not depend on
\* the order in which the files were scanned; a reference scanned before the
\* file that declares its identifier resolves.
C3_ResolutionOrderIndependent ==
  pc = "done" =>
    LET sh == InCorpusOrder(1, Shared(EmptyMap, EmptyMap, EmptyMap, <<>>))
    IN /\ Range(undefinedIssues) =
            Range(findUndefinedReferences(sh.references, sh.defIndex, sh.defnameIndex,
                                          sh.idIndex))
       /\ C3_DeclaredLater =>
            \A e \in Range(undefinedIssues) :
              e.msg \notin {UndeclaredMsg("I_B", "ITEMDEF"), UndeclaredMsg("C_1", "CHARDEF")}

\* the file scanned first refers to identifiers that only the file scanned
\* second declares, and those references are not reported
C3_Witness ==
  /\ pc = "done"
  /\ C3_DeclaredLater
  /\ \E r \in Range(refUses) : r.id = "C_1" /\ r.file = FileName(calls[1].file)
  /\ \E r \in Range(refUses) : r.id = "I_B" /\ r.file = FileName(calls[1].file)
  /\ \A e \in Range(undefinedIssues) :
       e.msg \notin {UndeclaredMsg("I_B", "ITEMDEF"), UndeclaredMsg("C_1", "CHARDEF")}

C4_Unresolved(r) ==
  /\ r.id \notin DOMAIN defnameLocations
  /\ r.id \notin DOMAIN idLocations
  /\ \A n \in 1..Len(r.defTypes) : (r.defTypes[n] \o " " \o r.id) \notin DOMAIN defLocations

C4_DeliveredLines == UNION {Range(Delivered(calls[n])) : n \in ScanCalls}

\* C4: the resolution pass reports a pending reference as UNDECLARED if and
\* only if its identifier is in neither the alias-name table nor the global
\* identifier table and no acceptable type forms a key of the definition index
\* with it; so the id of a header of any tracked type, and any alias name,
\* satisfies a reference of any expected type.
C4_UndeclaredIffInNoTable ==
  pc = "done" =>
    /\ Range(undefinedIssues) =
         {Issue(r.file, r.line, "UNDECLARED",
                UndeclaredMsg(r.id, JoinStrings(r.defTypes, "/")))
            : r \in {x \in Range(refUses) : C4_Unresolved(x)}}
    /\ "[SPAWN c_1]" \in C4_DeliveredLines =>
         \A e \in Range(undefinedIssues) : e.msg # UndeclaredMsg("C_1", "CHARDEF")
    /\ "DEFNAME=i_b" \in C4_DeliveredLines =>
         \A e \in Range(undefinedIssues) : e.msg # UndeclaredMsg("I_B", "ITEMDEF")

\* a c_ reference was satisfied by a SPAWN header while another reference of
\* the run stayed undeclared
C4_Witness ==
  /\ pc = "done"
  /\ "[SPAWN c_1]" \in C4_DeliveredLines
  /\ \E r \in Range(refUses) : r.id = "C_1" /\ r.defTypes = <<"CHARDEF">>
  /\ \E e \in Range(undefinedIssues) : e.msg = UndeclaredMsg("I_M", "ITEMDEF")
  /\ \A e \in Range(undefinedIssues) : e.msg # UndeclaredMsg("C_1", "CHARDEF")

C9_Files ==
  {<<"[COMMENT sphere_newb]">> \o prose \o
     <<"  [NEWBIE Alchemy]", "  IF 1", "[ITEMDEF i_test]", "[EOF]">> :
     prose \in {<<"the default human template,">>,
                <<"the default human template,", "the default human template,">>}}

\* C9: a file made of a [COMMENT name] header, prose lines, an indented
\* bracketed line, an indented block keyword line, a tracked header and [EOF]
\* yields no issue from the scan and the resolution pass.
C9_CommentSectionYieldsNoIssue ==
  (pc = "done" /\ failures = 0 /\ corpus[1] \in C9_Files) => issues = <<>>

\* the content lines of the alias-table sections of RefFiles, with their keys
C10_AliasLines == {"i_c i_zz", "r_q i_b"}

FileIndex(name) == CHOOSE f \in 1..Len(corpus) : FileName(f) = name

C10_Labels == {JoinStrings(refPatterns[n].defTypes, "/") : n \in 1..Len(refPatterns)}

\* C10: a line of an alias-table section adds no pending reference, so no
\* UNDECLARED issue is reported on such a line even when its mapped value is
\* declared nowhere; and the first token of each such line satisfies the
\* references made to it from other sections.
C10_AliasTableLinesNeverUndeclared ==
  /\ \A r \in Range(refUses) : corpus[FileIndex(r.file)][r.line] \notin C10_AliasLines
  /\ \A e \in Range(undefinedIssues) : corpus[FileIndex(e.file)][e.line] \notin C10_AliasLines
  /\ pc = "done" =>
       \A n \in ScanCalls : \A i \in 1..calls[n].delivered :
         LET line == corpus[calls[n].file][i]
         IN line \in C10_AliasLines =>
              \A e \in Range(undefinedIssues) : \A label \in C10_Labels :
                e.msg # UndeclaredMsg(ToUpper(firstToken(line)), label)

\* an alias table was read, its key is referred to from another section, the
\* mapped value i_zz is declared nowhere, and nothing about the alias line is
\* reported
C10_Witness ==
  /\ pc = "done"
  /\ "i_c i_zz" \in C4_DeliveredLines
  /\ \E r \in Range(refUses) : r.id = "I_C"
  /\ "I_ZZ" \notin DOMAIN defnameLocations \cup DOMAIN idLocations
  /\ \A e \in Range(undefinedIssues) :
       e.msg \notin {UndeclaredMsg(k, "ITEMDEF") : k \in {"I_C", "I_ZZ"}}

SyntaxPrefix == "SYNTAX: brackets -> "

\* the issues of call c on line i that the bracket check produced
BracketIssues(c, i) ==
  {n \in 1..Len(c.issues) :
     /\ c.issues[n].line = i
     /\ c.issues[n].kind = "SYNTAX"
     /\ HasPrefix(c.issues[n].msg, SyntaxPrefix)}

C12_Lines ==
  {"IF (<MOREY> > <MOREX>)",
   "V=<EVAL (<MOREY> > <MOREX>)>",
   "V=<EVAL (<MOREY> <= <MOREX>)>",
   "V=<EVAL ((<A> >= 3) || (<B> < -1000) || (<C>&002000000))>",
   "V=<EVAL (<MORE>)>/8",
   "V=<EVAL (<MORE>)</8"}

\* C12: a line that combines angle tokens with comparison operators, outside
\* an evaluation expression ('IF (<MOREY> > <MOREX>)') or inside one (the
\* five <EVAL ...> expressions of the tests), gets no brackets issue.
C12_AngleComparisonsGiveNoBracketIssue ==
  \A n \in ScanCalls : \A i \in 1..calls[n].delivered :
    corpus[calls[n].file][i] \in C12_Lines => BracketIssues(calls[n], i) = {}

\* a scan read the plain comparison and then the longest evaluation
\* expression, and returned no brackets issue
C12_Witness ==
  \E n \in ScanCalls :
    /\ calls[n].delivered = 2
    /\ corpus[calls[n].file][1] = "IF (<MOREY> > <MOREX>)"
    /\ corpus[calls[n].file][2] = "V=<EVAL ((<A> >= 3) || (<B> < -1000) || (<C>&002000000))>"
    /\ \A i \in 1..2 : BracketIssues(calls[n], i) = {}

\* the lines of AngleVocab that are exempt from the bracket check
C13_ExemptLines == {"SAY <A", "SERV.WRITEFILE f <A"}

\* the positions of the line where an angle expression opens
C13_Opens(line) ==
  {p \in 1..(Len(line) - 1) :
     Ch(line, p) = "<" /\ Ch(line, p + 1) \in LowerSet \cup UpperSet \cup {"_"}}

C13_NoCloserAfter(line, p) == \A q \in (p + 1)..Len(line) : Ch(line, q) # ">"

\* the angle expression opening at p is an evaluation expression
C13_EvalAt(line, p) ==
  /\ p + 4 <= Len(line)
  /\ ToUpper(SubSeq(line, p + 1, p + 4)) = "EVAL"
  /\ p + 4 = Len(line) \/ Ch(line, p + 5) \in {" ", "(", "\t"}

\* C13 as claimed: on every bracket-checked line an angle expression with no
\* closing '>' before the end of the line gives a brackets issue, in plain
\* token mode and in evaluation mode alike.
C13_UnterminatedAngleAlwaysReported ==
  \A n \in ScanCalls : \A i \in 1..calls[n].delivered :
    LET line == corpus[calls[n].file][i]
    IN (line \notin C13_ExemptLines /\ \E p \in C13_Opens(line) : C13_NoCloserAfter(line, p))
         => BracketIssues(calls[n], i) # {}

\* C13 (amended): on every bracket-checked line an angle expression with no
\* '>' after it gives a brackets issue when no evaluation expression opens at
\* or before it on the line, at any nesting depth; when the first angle
\* expression of the line is an evaluation expression with no '>' after it,
\* the rest of the line is consumed and no unclosed-'<' issue is reported.
C13_UnterminatedPlainAngleReported ==
  \A n \in ScanCalls : \A i \in 1..calls[n].delivered :
    LET line == corpus[calls[n].file][i]
        opens == C13_Opens(line)
    IN line \notin C13_ExemptLines =>
         /\ (\E p \in opens :
               /\ C13_NoCloserAfter(line, p)
               /\ \A q \in opens : q <= p => ~C13_EvalAt(line, q))
              => BracketIssues(calls[n], i) # {}
         /\ (\E p \in opens :
               /\ \A q \in opens : p <= q
               /\ C13_EvalAt(line, p)
               /\ C13_NoCloserAfter(line, p))
              => \A k \in BracketIssues(calls[n], i) :
                   calls[n].issues[k].msg # SyntaxPrefix \o "unclosed '<'"

\* a scan read a nested unterminated plain expression and reported it, then
\* read an unterminated evaluation expression and reported nothing
C13_Witness ==
  \E n \in ScanCalls :
    /\ calls[n].delivered = 2
    /\ corpus[calls[n].file][1] = "X <A<B>"
    /\ corpus[calls[n].file][2] = "X <EVAL (<A"
    /\ \E k \in BracketIssues(calls[n], 1) :
         calls[n].issues[k].msg = SyntaxPrefix \o "unclosed '<'"
    /\ BracketIssues(calls[n], 2) = {}

C14_Kinds == {"CRITICAL", "BLOCK", "SYNTAX", "LOGIC", "DUPLICATE", "TYPO", "UNDECLARED"}

\* C14: every issue returned by a scan or by the resolution pass carries a
\* line number of at least 1 and one of the seven categories, also when the
\* file is empty and when reading fails before or while lines are scanned.
C14_EveryIssueHasLineAndCategory ==
  /\ \A n \in 1..Len(calls) : \A k \in 1..Len(calls[n].issues) :
       calls[n].issues[k].line >= 1 /\ calls[n].issues[k].kind \in C14_Kinds
  /\ \A k \in 1..Len(issues) : issues[k].line >= 1 /\ issues[k].kind \in C14_Kinds

C15_Criticals(c) == {k \in 1..Len(c.issues) : c.issues[k].kind = "CRITICAL"}

\* every call that failed to read its file returned exactly one CRITICAL
\* issue, and the run visits every file
C15_OneCriticalPerFailure ==
  /\ \A n \in 1..Len(calls) :
       calls[n].outcome \in {"openfail", "scanerr"} =>
         Cardinality(C15_Criticals(calls[n])) = 1
  /\ pc = "done" => {calls[n].file : n \in 1..Len(calls)} = 1..Len(corpus)

\* a call whose open fails leaves the three indices and the pending references
\* as they were
C15_OpenFailKeepsTables ==
  (Len(calls') = Len(calls) + 1 /\ calls'[Len(calls')].outcome = "openfail")
    => UNCHANGED <<defLocations, defnameLocations, idLocations, refUses>>

\* C15: a failure to read a file (it cannot be opened, or a read error occurs
\* while its lines are scanned) produces exactly one CRITICAL issue for that
\* file, the run continues with the remaining files, and a failed open leaves
\* the shared indices and the pending references unchanged.
C15_ReadFailureGivesOneCritical ==
  [][C15_OpenFailKeepsTables]_vars /\ []C15_OneCriticalPerFailure

\* C16: the file made of the two lines '[ITEMDEF i_test]' and 'IF 1' yields
\* exactly two issues after scan and resolution: the unclosed-IF BLOCK issue at
\* the line of the IF and the CRITICAL missing-[EOF] issue at the last line.
C16_UnclosedIfAndMissingEOF ==
  (pc = "done" /\ failures = 0 /\ corpus[1] = <<"[ITEMDEF i_test]", "IF 1">>) =>
    /\ Len(issues) = 2
    /\ Range(issues) = {Issue(FileName(1), 2, "BLOCK", EOFUnclosedMsg("IF")),
                        Issue(FileName(1), 2, "CRITICAL", MissingEOFMsg)}

\* the run on that file is over, the scan read both lines, and the
\* resolution pass added nothing
C16_Witness ==
  /\ pc = "done"
  /\ corpus[1] = <<"[ITEMDEF i_test]", "IF 1">>
  /\ calls[1].outcome = "ok" /\ calls[1].delivered = 2
  /\ Len(issues) = 2
  /\ undefinedIssues = <<>>

\* the opening keyword of the opener lines of StmtVocab, and its closer
C17_OpenerOf(line) ==
  CASE line \in {"IF 1", "IF <A>=1", "IF i_nope"} -> "IF"
    [] line = "FOR x=1" -> "FOR"
    [] line = "dorand 2" -> "DORAND"
    [] OTHER -> ""

C17_CloserOf(keyword) ==
  CASE keyword = "IF" -> "ENDIF"
    [] keyword = "FOR" -> "ENDFOR"
    [] keyword = "DORAND" -> "ENDDO"
    [] OTHER -> ""

\* a line whose first token is an opening keyword, read outside free-text
\* mode, pushes one frame with that keyword and the line number
C17_PushStep ==
  (/\ pc = "scan" /\ pc' = "scan" /\ lineNum' = lineNum + 1
   /\ ~inTextBlock
   /\ C17_OpenerOf(corpus[cur][lineNum']) # "")
    => stack' = Append(stack, [typ |-> C17_OpenerOf(corpus[cur][lineNum']),
                               line |-> lineNum'])

\* the matching closer on the line after an opener gets no BLOCK issue
C17_CloserAccepted ==
  \A n \in ScanCalls : \A i \in 2..calls[n].delivered :
    LET opener == C17_OpenerOf(corpus[calls[n].file][i - 1])
    IN (opener # "" /\ corpus[calls[n].file][i] = C17_CloserOf(opener)) =>
         \A k \in 1..Len(calls[n].issues) :
           ~(calls[n].issues[k].line = i /\ calls[n].issues[k].kind = "BLOCK")

\* C17: outside free-text mode every line whose first token is an opening
\* keyword pushes exactly one frame recording the keyword and the line number,
\* whatever else the line contains (an '=' in its argument included), so the
\* matching closer that follows is accepted without a BLOCK issue.
C17_OpenerAlwaysPushesFrame ==
  [][C17_PushStep]_vars /\ []C17_CloserAccepted

C18_ScannedLines == {"IF i_nope", "X i_nope"}

\* C18: every line outside free-text mode that is no text-keyword line, no
\* SERV.WRITEFILE line and not in an alias table is scanned for identifiers
\* of the prefix convention, lines that begin with a block keyword included:
\* its identifier becomes a pending reference and, being declared nowhere,
\* an UNDECLARED issue on that line.
C18_BlockKeywordLinesAreScanned ==
  pc = "done" =>
    \A n \in ScanCalls : \A i \in 1..calls[n].delivered :
      corpus[calls[n].file][i] \in C18_ScannedLines =>
        /\ Ref(FileName(calls[n].file), i, <<"ITEMDEF">>, "I_NOPE") \in Range(refUses)
        /\ Issue(FileName(calls[n].file), i, "UNDECLARED",
                 UndeclaredMsg("I_NOPE", "ITEMDEF")) \in Range(undefinedIssues)

C19_DynamicLines == {"X F_MULTIS_<SRC.X>", "X i_foo<SRC.X>"}

\* C19: an identifier match immediately followed by '<' is never added to
\* the pending references, whatever its last character is: neither
\* 'F_MULTIS_<SRC.X>' nor 'i_foo<SRC.X>' adds one; any other match is added.
C19_DynamicIdNeverCollected ==
  \A n \in ScanCalls : \A i \in 1..calls[n].delivered :
    LET line == corpus[calls[n].file][i]
        here == {r \in Range(refUses) : r.file = FileName(calls[n].file) /\ r.line = i}
    IN /\ line \in C19_DynamicLines => here = {}
       /\ line = "X i_nope" => here = {Ref(FileName(calls[n].file), i, <<"ITEMDEF">>, "I_NOPE")}

\* the calls that read line 2 of an alias-table file of DeclFiles
C11_AliasCalls ==
  {n \in ScanCalls :
     /\ calls[n].delivered >= 2
     /\ corpus[calls[n].file][1] \in {"[RESDEFNAME t]", "[res_resdefname t]"}
     /\ corpus[calls[n].file][2] = "i_c i_zz"}

UndeclaredFor(id) ==
  {e \in Range(undefinedIssues) : e.msg = UndeclaredMsg(id, "ITEMDEF")}

\* C11 as claimed: every token of a content line of an alias table, not only
\* the first, is registered as an alias name, so a reference elsewhere in the
\* corpus to any token of the line resolves.
C11_EveryAliasTokenRegistered ==
  \A n \in C11_AliasCalls :
    /\ {"I_C", "I_ZZ"} \subseteq DOMAIN defnameLocations
    /\ pc = "done" => UndeclaredFor("I_C") = {} /\ UndeclaredFor("I_ZZ") = {}

\* C11 (amended): only the first token of a content line of an alias table is
\* registered as an alias name, at that line; a reference elsewhere in the
\* corpus to the first token resolves, one to another token of the line, when
\* nothing else declares it, is reported as UNDECLARED.
C11_OnlyFirstAliasTokenRegistered ==
  \A n \in C11_AliasCalls :
    /\ "I_C" \in DOMAIN defnameLocations
    /\ defnameLocations["I_C"] = Loc(FileName(calls[n].file), 2)
    /\ "I_ZZ" \notin DOMAIN defnameLocations
    /\ pc = "done" =>
         /\ UndeclaredFor("I_C") = {}
         /\ \A r \in Range(refUses) :
              r.id = "I_ZZ" =>
                Issue(r.file, r.line, "UNDECLARED", UndeclaredMsg("I_ZZ", "ITEMDEF"))
                  \in Range(undefinedIssues)

\* the run read an alias table and, in the other file, a reference to the
\* second token of its line, which is reported
C11_Witness ==
  /\ pc = "done"
  /\ C11_AliasCalls # {}
  /\ \E r \in Range(refUses) : r.id = "I_ZZ"
  /\ UndeclaredFor("I_ZZ") # {}
  /\ "I_C" \in DOMAIN defnameLocations

\* the section of the DEFNAME= line of a file of DeclFiles ("" outside any
\* section); the [COMMENT x] file holds its line in free-text mode
C20_SectionOf(file) ==
  CASE file[1] = "[MULTIDEF 01]" -> "MULTIDEF"
    [] file[1] \in {"[ITEMDEF 02]", "[ITEMDEF i_c]"} -> "ITEMDEF"
    [] file[1] = "[CHARDEF 04]" -> "CHARDEF"
    [] file[1] = "[TEMPLATE 03]" -> "TEMPLATE"
    [] OTHER -> ""

\* the line of the DEFNAME= line in a file of DeclFiles, 0 when it has none
\* outside free-text mode
C20_DefnameLine(file) ==
  IF file[1] \in {"DEFNAME=i_c"} THEN 1
  ELSE IF Len(file) >= 2 /\ file[2] \in {"DEFNAME=i_c", "defname=i_c"} /\ file[1] # "[COMMENT x]"
    THEN 2
  ELSE 0

\* C20: a DEFNAME=<name> line outside free-text mode registers the uppercased
\* name as an alias name whatever the enclosing section is, MULTIDEF
\* included; in an ITEMDEF, CHARDEF or TEMPLATE section it also stores the key
\* '<section> <NAME>' in the definition index at the line, unless the key is
\* there already; a reference to the name anywhere in the corpus resolves.
C20_DefnameLineRegistersAlias ==
  \A n \in ScanCalls :
    LET file == corpus[calls[n].file]
        at == C20_DefnameLine(file)
        section == C20_SectionOf(file)
        key == section \o " I_C"
    IN (at > 0 /\ calls[n].delivered >= at) =>
         /\ "I_C" \in DOMAIN defnameLocations
         /\ defnameLocations["I_C"] = Loc(FileName(calls[n].file), at)
         /\ section \in {"ITEMDEF", "CHARDEF", "TEMPLATE"} =>
              /\ key \in DOMAIN defLocations
              /\ defLocations[key] =
                   Loc(FileName(calls[n].file), IF file[1] = "[ITEMDEF i_c]" THEN 1 ELSE at)
         /\ pc = "done" => UndeclaredFor("I_C") = {}

\* the name was given in a MULTIDEF section with a numeric id, the other file
\* refers to it, and the reference resolved
C20_Witness ==
  /\ pc = "done"
  /\ \E n \in ScanCalls : corpus[calls[n].file] = <<"[MULTIDEF 01]", "DEFNAME=i_c", "[EOF]">>
                           /\ calls[n].delivered >= 2
  /\ \E r \in Range(refUses) : r.id = "I_C"
  /\ "I_C" \in DOMAIN defnameLocations
  /\ "I_C" \notin DOMAIN idLocations
  /\ UndeclaredFor("I_C") = {}

\* the key under which a header line of DialogVocab is registered
C21_Key(line) ==
  CASE line = "[DIALOG d]" -> "DIALOG D"
    [] line = "[DIALOG d TEXT]" -> "DIALOG D TEXT"
    [] line = "[dialog D Button]" -> "DIALOG D BUTTON"
    [] OTHER -> ""

\* the delivered header lines whose key an earlier line of the file already holds
C21_RepeatLines(c) ==
  {i \in 1..c.delivered :
     /\ C21_Key(corpus[c.file][i]) # ""
     /\ \E j \in 1..(i - 1) : C21_Key(corpus[c.file][j]) = C21_Key(corpus[c.file][i])}

C21_FirstLine(c, i) ==
  CHOOSE j \in 1..i :
    /\ C21_Key(corpus[c.file][j]) = C21_Key(corpus[c.file][i])
    /\ \A k \in 1..(j - 1) : C21_Key(corpus[c.file][k]) # C21_Key(corpus[c.file][i])

C21_FourHeaders ==
  <<"[DIALOG d]", "[DIALOG d TEXT]", "[dialog D Button]", "[DIALOG d TEXT]", "[EOF]">>

\* C21: a DIALOG header is keyed by its identifier plus its TEXT or BUTTON
\* sub-part: [DIALOG d], [DIALOG d TEXT] and [DIALOG d BUTTON] never duplicate
\* one another, and a scan returns one DUPLICATE issue exactly for each header
\* line that repeats the key of an earlier line, naming that key and the line of
\* its first definition; the file with the three headers, a second
\* [DIALOG d TEXT] and [EOF] yields exactly one issue in total.
C21_DialogSubPartsAreDistinctKeys ==
  \A n \in ScanCalls :
    LET c == calls[n]
        dups == SelectSeq(c.issues, LAMBDA e : e.kind = "DUPLICATE")
    IN /\ Len(dups) = Cardinality(C21_RepeatLines(c))
       /\ Range(dups) =
            {Issue(FileName(c.file), i, "DUPLICATE",
                   "DUPLICATE: '" \o C21_Key(corpus[c.file][i]) \o "' already defined at "
                     \o FileName(c.file) \o ":" \o ToString(C21_FirstLine(c, i)) \o ".")
               : i \in C21_RepeatLines(c)}
       /\ (c.outcome = "ok" /\ corpus[c.file] = C21_FourHeaders) =>
            (Len(c.issues) = 1 /\ c.issues[1].line = 4
               /\ c.issues[1].msg = "DUPLICATE: 'DIALOG D TEXT' already defined at "
                                       \o FileName(c.file) \o ":2.")

\* the file with the three distinct headers and a repeated [DIALOG d TEXT] was
\* scanned to its end and one issue came back
C21_Witness ==
  \E n \in ScanCalls :
    /\ calls[n].outcome = "ok"
    /\ corpus[calls[n].file] = C21_FourHeaders
    /\ Len(calls[n].issues) = 1

\* the delivered ITEM= / CONTAINER= lines of the TEMPLATE section that opens the
\* file of call c
TemplateLines(c) ==
  {i \in 2..c.delivered : \A j \in 2..i : corpus[c.file][j] \in TemplateVocab}

\* the value of an ITEM= / CONTAINER= line: what follows the '=', trimmed
TemplateValue(line) == TrimSpace(SubSeq(line, IndexOf(line, "=") + 1, Len(line)))

\* the issues of call c on line i with message msg
IssuesAt(c, i, msg) == SelectSeq(c.issues, LAMBDA e : e.line = i /\ e.msg = msg)

\* the brace groups of v that hold numbers and blanks only, and at least one number
C22_NumericGroups(v) ==
  {g \in (1..Len(v)) \X (1..Len(v)) :
     /\ g[1] < g[2]
     /\ Ch(v, g[1]) = "{" /\ Ch(v, g[2]) = "}"
     /\ \A k \in (g[1] + 1)..(g[2] - 1) : Ch(v, k) \in DigitSet \cup {" ", "\t"}
     /\ \E k \in (g[1] + 1)..(g[2] - 1) : Ch(v, k) \in DigitSet}

C22_Tokens(v, g) ==
  Cardinality({k \in (g[1] + 1)..(g[2] - 1) :
                 Ch(v, k) \in DigitSet /\ Ch(v, k - 1) \notin DigitSet})

C22_Malformed(v, g) ==
  \/ C22_Tokens(v, g) # 2
  \/ Ch(v, g[1] + 1) \in {" ", "\t"}
  \/ Ch(v, g[2] - 1) \in {" ", "\t"}

\* C22: on an ITEM= or CONTAINER= line of a TEMPLATE section the scan returns
\* one SYNTAX 'template range selector' issue for each brace group of numbers
\* that has not exactly two numbers or is padded against a brace, and none for
\* any other brace group: {1 3} gives none, { 1 3 } and {1 2 3} one each, a
\* group with a name in it none.
C22_RangeSelectorIssuePerMalformedGroup ==
  \A n \in ScanCalls : \A i \in TemplateLines(calls[n]) :
    LET c == calls[n]
        v == TemplateValue(corpus[c.file][i])
        found == IssuesAt(c, i, "SYNTAX: template range selector")
    IN /\ Len(found) = Cardinality({g \in C22_NumericGroups(v) : C22_Malformed(v, g)})
       /\ \A k \in 1..Len(found) : found[k].kind = "SYNTAX"

\* a scan delivered a line with one well-formed, one single-number and one
\* padded group and returned two range-selector issues for it
C22_Witness ==
  \E n \in ScanCalls : \E i \in TemplateLines(calls[n]) :
    /\ corpus[calls[n].file][i] = "item = {7} {2 3 } {t_y 1}"
    /\ Len(IssuesAt(calls[n], i, "SYNTAX: template range selector")) = 2

\* the identifier tokens of v that start with R or r and a digit and go on with
\* something that is no digit
C24_BadRSelectors(v) ==
  SelectSeq(templateIdentPattern(v),
            LAMBDA tok : /\ Len(tok) >= 3
                         /\ Ch(tok, 1) \in {"R", "r"}
                         /\ Ch(tok, 2) \in DigitSet
                         /\ \E k \in 3..Len(tok) : Ch(tok, k) \notin DigitSet)

\* ITEM or CONTAINER, the keyword of a line of TemplateVocab
C24_Keyword(line) == IF ToUpper(SubSeq(line, 1, 4)) = "ITEM" THEN "ITEM" ELSE "CONTAINER"

C24_MissingValueMsgs == {"LOGIC: ITEM missing value", "LOGIC: CONTAINER missing value"}

C24_SelectorMsgs == {"SYNTAX: template range selector", "SYNTAX: template R selector"}

\* C24: on an ITEM= or CONTAINER= line of a TEMPLATE section the scan returns
\* one SYNTAX 'template R selector' issue for each identifier token that starts
\* with R or r and a digit and is not R followed by digits only (R1A, r3x, R4_),
\* and none for R<digits> or for a token whose second character is no digit
\* (random_food); a line with an empty value gets exactly one LOGIC issue
\* '<ITEM or CONTAINER> missing value' and no selector issue, and a line with a
\* value gets no missing-value issue.
C24_RSelectorAndEmptyValueIssues ==
  \A n \in ScanCalls : \A i \in TemplateLines(calls[n]) :
    LET c == calls[n]
        line == corpus[c.file][i]
        v == TemplateValue(line)
        onLine(msgs) == SelectSeq(c.issues, LAMBDA e : e.line = i /\ e.msg \in msgs)
    IN /\ Len(IssuesAt(c, i, "SYNTAX: template R selector")) = Len(C24_BadRSelectors(v))
       /\ \A k \in 1..Len(onLine(C24_SelectorMsgs)) : onLine(C24_SelectorMsgs)[k].kind = "SYNTAX"
       /\ IF v = ""
            THEN /\ onLine(C24_MissingValueMsgs) =
                      <<Issue(FileName(c.file), i, "LOGIC",
                              "LOGIC: " \o C24_Keyword(line) \o " missing value")>>
                 /\ onLine(C24_SelectorMsgs) = <<>>
            ELSE onLine(C24_MissingValueMsgs) = <<>>

\* a scan delivered a line with the malformed selectors r3x and R4_ and returned
\* two R-selector issues for it, and delivered 'container =' and returned the
\* missing-value issue
C24_Witness ==
  \E n \in ScanCalls : \E i, j \in TemplateLines(calls[n]) :
    /\ corpus[calls[n].file][i] = "ITEM=R2 r3x R4_ container"
    /\ Len(IssuesAt(calls[n], i, "SYNTAX: template R selector")) = 2
    /\ corpus[calls[n].file][j] = "container ="
    /\ Len(IssuesAt(calls[n], j, "LOGIC: CONTAINER missing value")) = 1

\* the names of a value: its identifier tokens other than ITEM, CONTAINER and
\* R<digits>, in upper case
C23_Names(v) ==
  {ToUpper(tok) : tok \in
     {t \in Range(templateIdentPattern(v)) :
        /\ ToUpper(t) \notin {"ITEM", "CONTAINER"}
        /\ ~(/\ Len(t) >= 2
             /\ Ch(t, 1) \in {"R", "r"}
             /\ \A k \in 2..Len(t) : Ch(t, k) \in DigitSet)}}

\* the types that a reference from a line of TemplateVocab accepts
C23_Types(line) ==
  IF C24_Keyword(line) = "ITEM" THEN <<"ITEMDEF", "TEMPLATE">> ELSE <<"ITEMDEF">>

C23_OtherTypes(line) ==
  IF C24_Keyword(line) = "ITEM" THEN <<"ITEMDEF">> ELSE <<"ITEMDEF", "TEMPLATE">>

\* the identifiers that the delivered lines of call c declare
C23_Declared(c) ==
  {"T_X"}
    \cup (IF "[TEMPLATE t_y]" \in Range(Delivered(c)) THEN {"T_Y"} ELSE {})
    \cup (IF "[ITEMDEF i_a]" \in Range(Delivered(c)) THEN {"I_A"} ELSE {})

\* C23: in a TEMPLATE section every name of an ITEM= value is recorded as a
\* pending reference that accepts ITEMDEF or TEMPLATE, and every name of a
\* CONTAINER= value as one that accepts ITEMDEF only; the selector tokens ITEM,
\* CONTAINER and R<digits> are not recorded.  After the resolution pass a name
\* declared as a TEMPLATE or ITEMDEF anywhere in the file has no UNDECLARED
\* issue on the line, an undeclared ITEM= name has the issue "'<NAME>' not
\* defined as ITEMDEF/TEMPLATE" and an undeclared CONTAINER= name the issue
\* "'<NAME>' not defined as ITEMDEF".
C23_TemplateNamesBecomeTypedReferences ==
  \A n \in ScanCalls : \A i \in TemplateLines(calls[n]) :
    LET c == calls[n]
        line == corpus[c.file][i]
        names == C23_Names(TemplateValue(line))
        label == JoinStrings(C23_Types(line), "/")
    IN /\ {r \in Range(refUses) : r.line = i /\ r.defTypes = C23_Types(line)} =
            {Ref(FileName(c.file), i, C23_Types(line), id) : id \in names}
       /\ C24_Keyword(line) = "CONTAINER" =>
            \A r \in Range(refUses) : r.line = i => r.defTypes # C23_OtherTypes(line)
       /\ pc = "done" =>
            \A id \in names :
              IF id \in C23_Declared(c)
                THEN \A e \in Range(undefinedIssues) :
                       ~(e.line = i /\ \E l \in {"ITEMDEF", "ITEMDEF/TEMPLATE"} :
                                         e.msg = UndeclaredMsg(id, l))
                ELSE Issue(FileName(c.file), i, "UNDECLARED", UndeclaredMsg(id, label))
                       \in Range(undefinedIssues)

\* the run is over for a file whose TEMPLATE section names a template declared
\* further down and an item declared nowhere: the only issue is the one for
\* the item
C23_Witness ==
  /\ pc = "done"
  /\ Len(calls) = 1 /\ calls[1].outcome = "ok"
  /\ corpus[1] = <<"[TEMPLATE t_x]", "ITEM=t_y", "CONTAINER=i_missing",
                   "[TEMPLATE t_y]", "[ITEMDEF i_a]", "[EOF]">>
  /\ issues = <<Issue(FileName(1), 3, "UNDECLARED", UndeclaredMsg("I_MISSING", "ITEMDEF"))>>

\* the closer of the opener that starts a line of LoopVocab
C25_CloserOf(line) ==
  LET K == ToUpper(firstToken(line))
  IN IF K = "WHILE" THEN "ENDWHILE"
     ELSE IF K \in {"DORAND", "DOSWITCH"} THEN "ENDDO"
     ELSE "ENDFOR"

C25_IssuesOfKind(c, i, kind) == SelectSeq(c.issues, LAMBDA e : e.line = i /\ e.kind = kind)

\* C25: a line that holds only WHILE, FOR, DORAND, DOSWITCH or one of the nine
\* FOR variants that take an argument gets exactly one LOGIC issue, which says
\* that the keyword misses something, and still opens its block, so its own
\* closer on the next line gets no BLOCK issue; the same keyword followed by an
\* argument gets no LOGIC issue, and a section of such a line, its closer and
\* the terminal marker gets no issue at all.
C25_BareLoopKeywordReportedAndOpened ==
  \A n \in ScanCalls : \A i \in 2..calls[n].delivered :
    LET c == calls[n]
        file == corpus[c.file]
        line == file[i]
        closed == i < c.delivered /\ file[i + 1] = C25_CloserOf(line)
        logic == C25_IssuesOfKind(c, i, "LOGIC")
    IN /\ line \in LoopBare =>
            /\ Len(logic) = 1
            /\ HasPrefix(logic[1].msg, "LOGIC: " \o ToUpper(line) \o " missing ")
            /\ closed => C25_IssuesOfKind(c, i + 1, "BLOCK") = <<>>
            /\ (closed /\ c.outcome = "ok" /\ Len(file) = 4 /\ file[4] = "[EOF]") =>
                 c.issues = logic
       /\ line \in LoopWithArg =>
            /\ logic = <<>>
            /\ closed => C25_IssuesOfKind(c, i + 1, "BLOCK") = <<>>
            /\ (closed /\ c.outcome = "ok" /\ Len(file) = 4 /\ file[4] = "[EOF]") =>
                 c.issues = <<>>

\* a scan read a bare FOROBJS, its ENDFOR and the terminal marker, and returned
\* the missing-argument issue alone
C25_Witness ==
  \E n \in ScanCalls :
    /\ calls[n].outcome = "ok"
    /\ corpus[calls[n].file] = <<"[ITEMDEF i_test]", "forobjs", "ENDFOR", "[EOF]">>
    /\ calls[n].issues =
         <<Issue(FileName(calls[n].file), 2, "LOGIC", "LOGIC: FOROBJS missing argument")>>

\* the positions of refUses that hold the reference from line `line` of file
\* number f to id, accepting types
C26_Uses(f, line, types, id) ==
  {n \in 1..Len(refUses) : refUses[n] = Ref(FileName(f), line, types, id)}

\* C26: the resolution pass returns no two issues for the same file, line,
\* identifier and type label: an unresolved identifier that occurs several
\* times on one line is reported once for that line.
C26_OneIssuePerFileLineIdLabel ==
  /\ \A a \in 1..Len(undefinedIssues) : \A b \in 1..Len(undefinedIssues) :
       (/\ undefinedIssues[a].file = undefinedIssues[b].file
        /\ undefinedIssues[a].line = undefinedIssues[b].line
        /\ undefinedIssues[a].msg = undefinedIssues[b].msg) => a = b
  /\ pc = "done" =>
       \A f \in DOMAIN corpus :
         C26_Uses(f, 2, <<"ITEMDEF">>, "I_M") # {} =>
           Cardinality({a \in 1..Len(undefinedIssues) :
                          undefinedIssues[a] =
                            Issue(FileName(f), 2, "UNDECLARED", UndeclaredMsg("I_M", "ITEMDEF"))}) = 1

\* the run is over, one line referred twice to I_M and twice to R_Q, neither
\* declared, and both were reported
C26_Witness ==
  /\ pc = "done"
  /\ \E f \in DOMAIN corpus :
       /\ Cardinality(C26_Uses(f, 2, <<"ITEMDEF">>, "I_M")) = 2
       /\ Cardinality(C26_Uses(f, 2, <<"REGIONTYPE", "AREADEF">>, "R_Q")) = 2
       /\ Issue(FileName(f), 2, "UNDECLARED", UndeclaredMsg("I_M", "ITEMDEF"))
            \in Range(undefinedIssues)
       /\ Issue(FileName(f), 2, "UNDECLARED", UndeclaredMsg("R_Q", "REGIONTYPE/AREADEF"))
            \in Range(undefinedIssues)

\* a second run from fresh tables over the files in the order of the calls,
\* each read as far as the first run read it: the issues of the scans from
\* call n on after acc, and the tables at the end
RECURSIVE C27_Rerun(_, _, _)
C27_Rerun(n, sh, acc) ==
  IF n > Len(calls) THEN [issues |-> acc, sh |-> sh]
  ELSE LET c == calls[n]
       IN IF c.outcome = "openfail"
            THEN C27_Rerun(n + 1, sh,
                           Append(acc, Issue(FileName(c.file), 1, "CRITICAL", OpenErrMsg)))
            ELSE LET s == FinishScan(ScanLines(StartScan(sh), FileName(c.file), Delivered(c), 1),
                                     FileName(c.file), c.outcome = "scanerr")
                 IN C27_Rerun(n + 1,
                              Shared(s.defIndex, s.defnameIndex, s.idIndex, s.references),
                              acc \o s.issues)

C27_SecondRunIssues ==
  LET r == C27_Rerun(1, Shared(EmptyMap, EmptyMap, EmptyMap, <<>>), <<>>)
  IN r.issues \o findUndefinedReferences(r.sh.references, r.sh.defIndex, r.sh.defnameIndex,
                                         r.sh.idIndex)

C28_Undeclared(seq) == SelectSeq(seq, LAMBDA e : e.kind = "UNDECLARED")

\* what is left of the run: the files to visit, the lines to read of the file
\* being scanned, and the resolution call
RECURSIVE C28_LeftToVisit(_, _)
C28_LeftToVisit(n, rem) ==
  IF n = 0 THEN 0
  ELSE (IF n \in rem THEN Len(corpus[n]) + 2 ELSE 0) + C28_LeftToVisit(n - 1, rem)

C28_Left(rem, p, f, ln) ==
  C28_LeftToVisit(Len(corpus), rem)
    + (IF p = "scan" THEN Len(corpus[f]) - ln + 1 ELSE 0)
    + (IF p = "done" THEN 0 ELSE 1)

\* C28: no scan of a file returns an UNDECLARED issue; the issues of the
\* resolution call are all UNDECLARED and are the only UNDECLARED issues of
\* the run; the call is made when every file has been visited and its scan has
\* returned, and nothing follows it, so it is made at most once; and it is
\* made in every run that ends: until it is made the run can go on (a file to
\* open, a line to read, the end of the file to return from, or the call
\* itself), and every step brings the run closer to it.
C28_UndeclaredOnlyFromOneFinalResolution ==
  /\ [](/\ \A n \in 1..Len(calls) : C28_Undeclared(calls[n].issues) = <<>>
        /\ C28_Undeclared(fileIssues) = <<>>
        /\ C28_Undeclared(undefinedIssues) = undefinedIssues
        /\ C28_Undeclared(issues) = undefinedIssues
        /\ pc # "done" => undefinedIssues = <<>>
        /\ pc # "done" =>
             \/ \E f \in remaining : ENABLED OpenFile(f)
             \/ pc = "scan" /\ lineNum < Len(corpus[cur])
             \/ ENABLED EndOfFile
             \/ ENABLED Resolve)
  /\ [][/\ (undefinedIssues' # undefinedIssues \/ pc' = "done") =>
             /\ pc = "walk" /\ cur = 0
             /\ remaining = {}
             /\ {calls[n].file : n \in 1..Len(calls)} = DOMAIN corpus
             /\ Len(calls) = Len(corpus)
        /\ pc # "done"
        /\ C28_Left(remaining', pc', cur', lineNum') < C28_Left(remaining, pc, cur, lineNum)]_vars

\* the resolution call has returned an issue after two scans
C28_Witness ==
  /\ pc = "done"
  /\ Len(calls) = 2
  /\ \A n \in 1..2 : calls[n].outcome # "openfail"
  /\ undefinedIssues # <<>>

\* the closing keyword that a frame opened by keyword k expects
C29_Expected(k) ==
  CASE k = "IF" -> "ENDIF"
    [] k = "WHILE" -> "ENDWHILE"
    [] k = "FOR" -> "ENDFOR"
    [] k \in {"DORAND", "DOSWITCH", "DOSELECT"} -> "ENDDO"
    [] k = "BEGIN" -> "END"

\* a closing keyword as matched: ENDO and ENDOR stand for ENDDO
C29_Normalized(closer) == IF closer \in {"ENDO", "ENDOR"} THEN "ENDDO" ELSE closer

\* the step that reads a line holding a closing keyword
C29_CloserStep ==
  /\ pc = "scan" /\ pc' = "scan" /\ lineNum' = lineNum + 1
  /\ corpus[cur][lineNum'] \in CloseClosers

C29_StepEffect ==
  LET closer == ToUpper(corpus[cur][lineNum'])
      n == Len(stack)
  IN IF n = 0
       THEN /\ stack' = <<>>
            /\ fileIssues' = Append(fileIssues,
                 Issue(FileName(cur), lineNum', "BLOCK",
                       "BLOCK: '" \o closer \o "' without opening block."))
       ELSE /\ stack' = SubSeq(stack, 1, n - 1)
            /\ fileIssues' =
                 IF C29_Normalized(closer) # C29_Expected(stack[n].typ)
                   THEN Append(fileIssues,
                          Issue(FileName(cur), lineNum', "BLOCK",
                                "BLOCK: mismatch. '" \o stack[n].typ \o "' closed by '"
                                  \o closer \o "' (expected "
                                  \o C29_Expected(stack[n].typ) \o ")."))
                   ELSE fileIssues

\* the issues of call c that report a frame as unclosed
C29_UnclosedIssues(c) ==
  SelectSeq(c.issues, LAMBDA e : HasPrefix(e.msg, "BLOCK: unclosed '"))

\* C29: a line that holds a closing keyword, read with an empty stack, adds
\* the issue "BLOCK: '<closer>' without opening block." and leaves the stack
\* empty; read with frames open it pops the top frame and nothing else, and
\* adds the mismatch issue, which names the opener of that frame, the closer
\* as written and the closer expected, exactly when the closer, with ENDO and
\* ENDOR read as ENDDO, is not the one the frame expects.  So ENDO and ENDOR
\* close DORAND, DOSWITCH and DOSELECT without an issue, and a frame popped by
\* a wrong closer is not reported as unclosed: a scan reports as unclosed the
\* frames left on the stack and no other.
C29_CloserPopsTopFrame ==
  /\ [][C29_CloserStep => C29_StepEffect]_vars
  /\ [](\A n \in ScanCalls :
          LET c == calls[n]
              unclosed == C29_UnclosedIssues(c)
          IN /\ Len(unclosed) = Len(c.stackAtEnd)
             /\ \A k \in 1..Len(unclosed) : unclosed[k].line = c.stackAtEnd[k].line
             /\ \A i \in 2..(c.delivered - 1) :
                  (/\ corpus[c.file][i] \in {"DORAND 2", "DOSWITCH 1", "DOSELECT 2"}
                   /\ corpus[c.file][i + 1] \in {"ENDO", "endor", "ENDDO"})
                    => \A k \in 1..Len(c.issues) : c.issues[k].line \notin {i, i + 1}
                                                     \/ c.issues[k].kind = "CRITICAL")

\* a scan read IF, DORAND and ENDIF: ENDIF popped the DORAND frame with a
\* mismatch issue, and only the IF frame was reported as unclosed
C29_Witness ==
  \E n \in ScanCalls :
    LET c == calls[n]
    IN /\ c.outcome = "ok"
       /\ corpus[c.file] = <<"[ITEMDEF i_test]", "IF 1", "DORAND 2", "ENDIF">>
       /\ c.popped = 1
       /\ c.stackAtEnd = <<[typ |-> "IF", line |-> 2]>>
       /\ Len(C29_UnclosedIssues(c)) = 1
       /\ c.issues[1] = Issue(FileName(c.file), 4, "BLOCK",
                              "BLOCK: mismatch. 'DORAND' closed by 'ENDIF' (expected ENDDO).")

C30_Keywords == {"ELSE", "ELIF", "ELSEIF"}

\* the step that reads a line whose first token is ELSE, ELIF or ELSEIF
C30_ElseStep ==
  /\ pc = "scan" /\ pc' = "scan" /\ lineNum' = lineNum + 1
  /\ ToUpper(firstToken(corpus[cur][lineNum'])) \in C30_Keywords

C30_Reported ==
  \E k \in (Len(fileIssues) + 1)..Len(fileIssues') :
    fileIssues'[k] =
      Issue(FileName(cur), lineNum', "BLOCK",
            "BLOCK: '" \o ToUpper(firstToken(corpus[cur][lineNum'])) \o "' without matching IF.")

\* C30: a line whose first token is ELSE, ELIF or ELSEIF leaves the block
\* stack as it is, and adds the issue "BLOCK: '<keyword>' without matching IF."
\* if and only if the stack is empty or the keyword of its top frame is not IF.
C30_ElseKeepsStackAndReportsIffNoIf ==
  [][C30_ElseStep =>
       /\ stack' = stack
       /\ C30_Reported <=> (stack = <<>> \/ stack[Len(stack)].typ # "IF")]_vars

\* the step that reads the next line of the file
C31_ReadStep == pc = "scan" /\ pc' = "scan" /\ lineNum' = lineNum + 1

\* C31: in free-text mode, entered at a [COMMENT ...] or [BOOK ...] header, a
\* line that is no definition header, no comment header and no trigger adds no
\* issue and no pending reference, changes none of the three indices and
\* leaves the block stack empty; free-text mode lasts until the next
\* definition header of a non-text type or the next trigger line.
C31_FreeTextLinesHaveNoEffect ==
  /\ [](pc = "scan" /\ inTextBlock => stack = <<>>)
  /\ [][C31_ReadStep =>
          LET line == corpus[cur][lineNum']
          IN /\ inTextBlock' = (IF line \in TextHeaders THEN TRUE
                                ELSE IF line \in TextEnders THEN FALSE
                                ELSE inTextBlock)
             /\ (inTextBlock /\ line \in TextLines) =>
                  /\ fileIssues' = fileIssues
                  /\ refUses' = refUses
                  /\ defLocations' = defLocations
                  /\ defnameLocations' = defnameLocations
                  /\ idLocations' = idLocations
                  /\ stack' = <<>>]_vars

\* a scan in free-text mode has read an opener, a reference with a stray
\* bracket and a DEFNAME line, and holds no issue, reference, name or frame
C31_Witness ==
  /\ pc = "scan" /\ inTextBlock /\ lineNum = 4
  /\ corpus[cur] = <<"[BOOK b]", "IF 1", "X i_nope )", "DEFNAME=i_q">>
  /\ fileIssues = <<>> /\ refUses = <<>> /\ stack = <<>>
  /\ DOMAIN defnameLocations = {}

\* idx2 keeps every key of idx with its location, and a key it adds holds the
\* line being read
C32_Extends(idx, idx2, file, line) ==
  /\ \A k \in DOMAIN idx : k \in DOMAIN idx2 /\ idx2[k] = idx[k]
  /\ \A k \in DOMAIN idx2 \ DOMAIN idx : idx2[k] = Loc(file, line)

\* the definition-index key of a header line of the family, "" if it has none
C32_HeaderKey(line) ==
  CASE line = "[ITEMDEF i_x]" -> "ITEMDEF I_X"
    [] line = "[ITEMDEF i_a]" -> "ITEMDEF I_A"
    [] line = "[CHARDEF i_x]" -> "CHARDEF I_X"
    [] OTHER -> ""

C37_DefnameLines == {"DEFNAME=i_x", "defname=I_X"}

C37_Duplicates(seq) == SelectSeq(seq, LAMBDA e : e.kind = "DUPLICATE")

\* the run over a file that holds the header [ITEMDEF i_x] alone and a file
\* that holds DEFNAME=i_x in another ITEMDEF section
C37_HeaderAndDefnameFiles ==
  /\ corpus[1] = <<"[ITEMDEF i_x]">>
  /\ corpus[2] = <<"[ITEMDEF i_a]", "DEFNAME=i_x", "[EOF]">>

\* C37: only definition header lines get DUPLICATE issues.  A DEFNAME=<name>
\* line of an ITEMDEF or CHARDEF section whose key the definition index holds
\* adds no issue and leaves the index as it is, while a header [T name] read
\* after a DEFNAME=<name> line of a T section is reported as a DUPLICATE of
\* that line.  So the header [ITEMDEF i_x] and the line DEFNAME=i_x of another
\* ITEMDEF section give no DUPLICATE issue when the header is scanned first
\* and one when the DEFNAME= line is scanned first.
C37_DuplicateOnlyOnHeaders ==
  /\ [](\A n \in ScanCalls :
          \A k \in 1..Len(calls[n].issues) :
            calls[n].issues[k].kind = "DUPLICATE" =>
              C32_HeaderKey(corpus[calls[n].file][calls[n].issues[k].line]) # "")
  /\ [](\A n \in ScanCalls :
          (/\ n = 1 /\ calls[n].delivered = 3
           /\ corpus[calls[n].file] = <<"[ITEMDEF i_a]", "DEFNAME=i_x", "[ITEMDEF i_x]">>)
            => C37_Duplicates(calls[n].issues) =
                 <<Issue(FileName(calls[n].file), 3, "DUPLICATE",
                         "DUPLICATE: 'ITEMDEF I_X' already defined at "
                           \o FileName(calls[n].file) \o ":2.")>>)
  /\ []((pc = "done" /\ failures = 0 /\ C37_HeaderAndDefnameFiles) =>
          C37_Duplicates(issues) =
            IF calls[1].file = 1
              THEN <<>>
              ELSE <<Issue(FileName(1), 1, "DUPLICATE",
                           "DUPLICATE: 'ITEMDEF I_X' already defined at "
                             \o FileName(2) \o ":2.")>>)
  /\ [][(/\ C31_ReadStep
         /\ corpus[cur][lineNum'] \in C37_DefnameLines
         /\ currentSection \in {"ITEMDEF", "CHARDEF"}
         /\ (currentSection \o " I_X") \in DOMAIN defLocations)
          => (fileIssues' = fileIssues /\ defLocations' = defLocations)]_vars

\* the file with the DEFNAME= line was scanned first and the header of the
\* other file was reported as a duplicate of it
C37_Witness ==
  /\ pc = "done" /\ failures = 0
  /\ C37_HeaderAndDefnameFiles
  /\ calls[1].file = 2
  /\ Len(C37_Duplicates(issues)) = 1

\* the pending references and the UNDECLARED issues of line i of file f
C38_RefsAt(f, i) ==
  SelectSeq(refUses, LAMBDA r : r.file = FileName(f) /\ r.line = i)

C38_UndeclaredAt(f, i) ==
  SelectSeq(undefinedIssues, LAMBDA e : e.file = FileName(f) /\ e.line = i)

\* C38: in a TEMPLATE section the line ITEM=i_missing records two pending
\* references to I_MISSING, one that accepts ITEMDEF or TEMPLATE and one that
\* accepts ITEMDEF, and with I_MISSING declared nowhere the resolution pass
\* returns two UNDECLARED issues for the line, with the labels ITEMDEF/TEMPLATE
\* and ITEMDEF; the line CONTAINER=i_missing records references that accept
\* ITEMDEF only and gets exactly one UNDECLARED issue.
C38_PrefixedItemNameReportedTwice ==
  \A n \in ScanCalls : \A i \in TemplateLines(calls[n]) :
    LET f == calls[n].file
        name == FileName(f)
        both == <<"ITEMDEF", "TEMPLATE">>
        one == <<"ITEMDEF">>
    IN /\ corpus[f][i] = "ITEM=i_missing" =>
            /\ C38_RefsAt(f, i) = <<Ref(name, i, both, "I_MISSING"), Ref(name, i, one, "I_MISSING")>>
            /\ pc = "done" =>
                 C38_UndeclaredAt(f, i) =
                   <<Issue(name, i, "UNDECLARED", UndeclaredMsg("I_MISSING", "ITEMDEF/TEMPLATE")),
                     Issue(name, i, "UNDECLARED", UndeclaredMsg("I_MISSING", "ITEMDEF"))>>
       /\ corpus[f][i] = "CONTAINER=i_missing" =>
            /\ Len(C38_RefsAt(f, i)) >= 1
            /\ Range(C38_RefsAt(f, i)) = {Ref(name, i, one, "I_MISSING")}
            /\ pc = "done" =>
                 C38_UndeclaredAt(f, i) =
                   <<Issue(name, i, "UNDECLARED", UndeclaredMsg("I_MISSING", "ITEMDEF"))>>

\* the run is over for a TEMPLATE section with ITEM=i_missing and
\* CONTAINER=i_missing: three UNDECLARED issues, two of them for the ITEM= line
C38_Witness ==
  /\ pc = "done"
  /\ Len(calls) = 1 /\ calls[1].outcome = "ok"
  /\ corpus[1] = <<"[TEMPLATE t_x]", "ITEM=i_missing", "CONTAINER=i_missing", "[EOF]">>
  /\ Len(C38_UndeclaredAt(1, 2)) = 2
  /\ Len(C38_UndeclaredAt(1, 3)) = 1
  /\ Len(undefinedIssues) = 3

C33_Openers == {"(", "[", "{"}

C33_Closers == {")", "]", "}"}

C33_Pair(a, b) == <<a, b>> \in {<<"(", ")">>, <<"[", "]">>, <<"{", "}">>}

\* the brackets of a line, in order
C33_Brackets(line) ==
  SelectSeq([i \in 1..Len(line) |-> Ch(line, i)],
            LAMBDA ch : ch \in C33_Openers \cup C33_Closers)

\* what is left of a sequence of brackets once every opener that is next to
\* its own closer has been taken out with it, again and again
RECURSIVE C33_Reduce(_)
C33_Reduce(seq) ==
  LET at == {i \in 1..(Len(seq) - 1) : C33_Pair(seq[i], seq[i + 1])}
  IN IF at = {} THEN seq
     ELSE LET i == CHOOSE x \in at : \A y \in at : x <= y
          IN C33_Reduce(SubSeq(seq, 1, i - 1) \o SubSeq(seq, i + 2, Len(seq)))

\* the result for a line whose brackets reduce to rest: nothing when nothing
\* is left, else the first closer left (alone, or after an opener of another
\* type), else the openers left
C33_Result(rest) ==
  LET closers == {p \in 1..Len(rest) : rest[p] \in C33_Closers}
      p == CHOOSE x \in closers : \A y \in closers : x <= y
  IN IF rest = <<>> THEN ""
     ELSE IF closers = {} THEN "unclosed: " \o JoinStrings(rest, ", ")
     ELSE IF p = 1 THEN "unexpected closing '" \o rest[p] \o "'"
     ELSE "expected closing '" \o rest[p - 1] \o "' but found '" \o rest[p] \o "'"

\* no '<' of the line is followed by a letter or an underscore
C33_NoAngleToken(line) ==
  \A i \in 1..(Len(line) - 1) :
    Ch(line, i) = "<" => ~isAngleTokenStart(Ch(line, i + 1))

\* C33: for a line in which no '<' is followed by a letter or an underscore
\* the bracket check reports nothing if and only if the round, square and
\* curly brackets of the line are balanced and properly nested; otherwise it
\* reports exactly one issue: 'unexpected closing' for the first closer met
\* with nothing open, the expected-but-found message for the first closer met
\* with a bracket of another type open, or 'unclosed:' with the brackets left
\* open, in the order they were opened.
C33_BracketCheckIsBalanceCheck ==
  \A n \in ScanCalls :
    (calls[n].delivered = 2 /\ C33_NoAngleToken(corpus[calls[n].file][2])) =>
      LET c == calls[n]
          expected == C33_Result(C33_Reduce(C33_Brackets(corpus[c.file][2])))
          found == SelectSeq(c.issues, LAMBDA e : e.line = 2 /\ e.kind = "SYNTAX")
      IN /\ (found = <<>>) <=> (C33_Reduce(C33_Brackets(corpus[c.file][2])) = <<>>)
         /\ found = IF expected = "" THEN <<>>
                    ELSE <<Issue(FileName(c.file), 2, "SYNTAX", SyntaxPrefix \o expected)>>

\* a scan read a line whose round brackets match and whose square bracket is
\* closed by a curly one, and reported that closer
C33_Witness ==
  \E n \in ScanCalls :
    /\ calls[n].delivered = 2
    /\ corpus[calls[n].file][2] = "()[}"
    /\ \E k \in 1..Len(calls[n].issues) :
         calls[n].issues[k].msg = SyntaxPrefix \o "expected closing '[' but found '}'"

\* the text after "X <" of a line
C34_Token(line) == SubSeq(line, 4, Len(line))

\* the number of identifier-like characters a text starts with
C34_IdentLen(w) ==
  LET stops == {i \in 1..Len(w) : ~isAngleTokenChar(Ch(w, i))}
  IN IF stops = {} THEN Len(w)
     ELSE (CHOOSE i \in stops : \A j \in stops : i <= j) - 1

\* C34: in plain token mode the scanner consumes only letters, digits,
\* underscores and dots, and the first '>' closes the token; a token whose
\* identifier-like characters are followed by anything but '>', or by the end
\* of the line, is reported as "unclosed '<'", and no other token is.
C34_PlainTokenStopsAtOtherCharacter ==
  \A n \in ScanCalls :
    (/\ calls[n].delivered = 2
     /\ Len(corpus[calls[n].file][2]) > 3
     /\ isAngleTokenStart(Ch(corpus[calls[n].file][2], 4))) =>
      LET w == C34_Token(corpus[calls[n].file][2])
          k == C34_IdentLen(w)
          reported == \E e \in 1..Len(calls[n].issues) :
                        /\ calls[n].issues[e].line = 2
                        /\ calls[n].issues[e].msg = SyntaxPrefix \o "unclosed '<'"
      IN reported <=> (k = Len(w) \/ Ch(w, k + 1) # ">")

\* the indices of a line at which checkBrackets scans an angle expression
C35_AngleStarts(line) ==
  {i \in 1..(Len(line) - 1) : Ch(line, i) = "<" /\ isAngleTokenStart(Ch(line, i + 1))}

\* the scan index of checkBrackets at its next loop test, after an iteration
\* at index i that does not return: one past the end of the angle expression
\* that starts at i, else one past i
C35_After(line, i) ==
  IF i \in C35_AngleStarts(line) /\ scanAngleExpression(line, i + 1).ok
    THEN scanAngleExpression(line, i + 1).end + 1
    ELSE i + 1

\* C35: on every line read, every iteration of checkBrackets moves the scan
\* index strictly forward and never past one beyond the end of the line, the
\* jump after an angle expression included, and scanAngleExpression returns an
\* end index that is at least its start index and at most the length of the
\* line (indices here are one more than in the code).
C35_BracketScanMovesForward ==
  \A n \in ScanCalls : \A j \in 1..calls[n].delivered :
    LET line == cleanLine(corpus[calls[n].file][j])
    IN /\ \A i \in 1..Len(line) :
            /\ C35_After(line, i) > i
            /\ C35_After(line, i) <= Len(line) + 1
       /\ \A i \in C35_AngleStarts(line) :
            /\ scanAngleExpression(line, i + 1).end >= i + 1
            /\ scanAngleExpression(line, i + 1).end <= Len(line) + 1

\* a scan read a line with two plain tokens and a line whose evaluation
\* expression runs to the end of the line, and the jump after that expression
\* ended the loop
C35_Witness ==
  \E n \in ScanCalls :
    /\ calls[n].delivered = 2
    /\ corpus[calls[n].file] = <<"X <A> <B.C>", "X <EVAL (<A">>
    /\ C35_After("X <A> <B.C>", 3) = 6
    /\ scanAngleExpression("X <EVAL (<A", 4) = [end |-> 11, ok |-> TRUE]
    /\ C35_After("X <EVAL (<A", 3) = 12

\* a scan state with nothing open, free-text mode off, no section and no
\* issue, over the given indices and reference list
C36_Blank(sh) ==
  [defIndex |-> sh.defIndex, defnameIndex |-> sh.defnameIndex, idIndex |-> sh.idIndex,
   references |-> sh.references,
   issues |-> <<>>, stack |-> <<>>, inTextBlock |-> FALSE, currentSection |-> "",
   lineNum |-> 0, lastNonEmpty |-> "", pushed |-> 0, popped |-> 0]

\* the calls made so far, done again one after the other with every file
\* scanned from a blank state over the indices and the reference list the
\* call before left: the issues after acc, and the indices and the list
RECURSIVE C36_Replay(_, _, _)
C36_Replay(n, sh, acc) ==
  IF n > Len(calls) THEN [issues |-> acc, sh |-> sh]
  ELSE LET c == calls[n]
       IN IF c.outcome = "openfail"
            THEN C36_Replay(n + 1, sh,
                            Append(acc, Issue(FileName(c.file), 1, "CRITICAL", OpenErrMsg)))
            ELSE LET s == FinishScan(ScanLines(C36_Blank(sh), FileName(c.file), Delivered(c), 1),
                                     FileName(c.file), c.outcome = "scanerr")
                 IN C36_Replay(n + 1,
                               Shared(s.defIndex, s.defnameIndex, s.idIndex, s.references),
                               acc \o s.issues)

\* C36: the block stack, the free-text flag and the current section belong to
\* one scan: every scan starts with the stack empty, the flag off and the
\* section blank, and receives the three indices and the reference list as
\* the scans before left them; so between two scans the issues, the indices
\* and the reference list are those of scans that each started blank,
\* whatever the scans before left open.
C36_ScanLocalsDoNotCarryOver ==
  /\ [](pc = "walk" =>
          LET r == C36_Replay(1, Shared(EmptyMap, EmptyMap, EmptyMap, <<>>), <<>>)
          IN /\ issues = r.issues
             /\ Shared(defLocations, defnameLocations, idLocations, refUses) = r.sh)
  /\ [][(pc = "walk" /\ pc' = "scan") =>
          /\ stack' = <<>>
          /\ inTextBlock' = FALSE
          /\ currentSection' = ""
          /\ fileIssues' = <<>>
          /\ UNCHANGED sharedVars]_vars

\* the first scan ended with a block open, and the second scan, of a file
\* that starts with ENDIF, reported that line
C36_Witness ==
  /\ Len(calls) = 2
  /\ calls[1].outcome = "ok" /\ calls[1].stackAtEnd # <<>>
  /\ calls[2].outcome = "ok"
  /\ Len(corpus[calls[2].file]) > 0
  /\ corpus[calls[2].file][1] = "ENDIF"
  /\ \E k \in 1..Len(calls[2].issues) :
       calls[2].issues[k].line = 1 /\ calls[2].issues[k].kind = "BLOCK"

====
